---- MODULE Spec2Model ----
(***************************************************************************)
(* claude-insights: the fuzzy textual identity predicate (significantWords *)
(* overlap with a 0.8 threshold) and the merge operations built on it: the *)
(* annotation store, the CLAUDE.md merge and the settings.json merge.      *)
(*                                                                         *)
(* Texts are TLA+ strings; a character is a string of length 1.  Files are *)
(* modelled by their content (a string, or a JSON value), or by Absent.    *)
(***************************************************************************)
EXTENDS Integers, Sequences, FiniteSets, TLC

VARIABLES
    simA,          \* first argument of the similarity call
    simB,          \* second argument of the similarity call
    simOut,        \* what the last similarity call returned 
    annFile,       \* the annotation store file
    annLast,       \* the last call on the annotation store
    annCalls,      \* how many calls the annotation store has served
    claudeMd,      \* the CLAUDE.md file: Absent or its text
    mdLast,        \* the last mergeClaudeMd call
    mdCalls,       \* how many mergeClaudeMd calls were made
    settingsFile,  \* .claude/settings.json: Absent, not JSON, or a JSON object
    stLast,        \* the last mergeSettings call
    stCalls,       \* how many mergeSettings calls were made
    allReports,    \* the reports given to aggregateReports, in source order
    teamFrictions, \* mergeFrictions: merged, after the records folded so far
    frictionsDone, \* mergeFrictions: how many friction records were folded
    teamRules,     \* mergeRules: merged, after the records folded so far
    rulesDone,     \* mergeRules: how many rule records were folded
    swText,        \* the argument of a significantWords call
    swOut,         \* its result, once called
    clock,         \* watchReport: milliseconds since the watch began
    timers,        \* watchReport: the due times of the timeouts that are set
    debounceTimer, \* watchReport: the handle the closure holds (a due time)
    watcherOpen,   \* watchReport: the fs watcher is not closed
    lastEventAt,   \* when the last file-change event arrived, -1 before any
    runsAfterEvent, \* pipelineFn invocations since that event
    lastRunGap,    \* at the last invocation, the time since the last event
    wait,          \* waitForReport: the promise, its flag, timers and watcher
    reportExists,  \* waitForReport: the report file exists
    waitNow,       \* waitForReport: milliseconds since the call
    raceProcs,     \* two processes in setAnnotation: where each one is
    skillFiles,    \* .claude/skills: the content of each skill file
    applyLast      \* the last applyToProject call

vars == <<simA, simB, simOut, annFile, annLast, annCalls,
          claudeMd, mdLast, mdCalls, settingsFile, stLast, stCalls,
          allReports, teamFrictions, frictionsDone, teamRules, rulesDone,
          swText, swOut, clock, timers, debounceTimer, watcherOpen,
          lastEventAt, runsAfterEvent, lastRunGap,
          wait, reportExists, waitNow, raceProcs, skillFiles, applyLast>>

simVars == <<simA, simB, simOut>>
annVars == <<annFile, annLast, annCalls>>
mdVars == <<claudeMd, mdLast, mdCalls>>
stVars == <<settingsFile, stLast, stCalls>>
teamVars == <<allReports, teamFrictions, frictionsDone, teamRules, rulesDone>>
wordsVars == <<swText, swOut>>
watchVars == <<clock, timers, debounceTimer, watcherOpen, lastEventAt,
               runsAfterEvent, lastRunGap>>
waitVars == <<wait, reportExists, waitNow>>
applyVars == <<skillFiles, applyLast>>

-----------------------------------------------------------------------------
(* Bounds of the model. *)

\* Longest first argument of a similarity call, in raw words.
MaxWords == 5
\* Longest sequence of setAnnotation calls.
MaxAnnCalls == 3
\* Longest sequence of mergeClaudeMd calls.
MaxMdCalls == 2
\* Longest sequence of mergeSettings calls.
MaxStCalls == 2
\* Most reports given to aggregateReports.
MaxReports == 2
\* The watch is followed for this many milliseconds.
MaxClock == 900
\* The longest time that passes in one step, in milliseconds.
TickMs == 100
\* The most applyToProject calls in a behaviour.
MaxApplyCalls == 1
\* The longest timeout waitForReport is called with, in milliseconds.
MaxTimeoutMs == 2500
\* The longest time that passes in one step of a wait, in milliseconds.
WaitTickMs == 500

\* A file that does not exist (existsSync is false).
Absent == [exists |-> FALSE]

-----------------------------------------------------------------------------
(* JavaScript string primitives the code uses. *)

CharAt(s, i) == SubSeq(s, i, i)

LowerLetters == "abcdefghijklmnopqrstuvwxyz"
UpperLetters == "ABCDEFGHIJKLMNOPQRSTUVWXYZ"
Digits == "0123456789"

CharsOf(s) == {CharAt(s, i) : i \in 1..Len(s)}

UpperChars == CharsOf(UpperLetters)

\* \s of a JavaScript regular expression, on the characters the model uses.
Whitespace == {" ", "\n", "\t"}

toLowerChar(c) ==
    IF c \in UpperChars
    THEN CharAt(LowerLetters, CHOOSE i \in 1..26 : CharAt(UpperLetters, i) = c)
    ELSE c

RECURSIVE toLowerCase(_)
toLowerCase(s) ==
    IF s = "" THEN ""
    ELSE toLowerChar(CharAt(s, 1)) \o toLowerCase(SubSeq(s, 2, Len(s)))

\* The characters /[^a-z0-9\s]/ does not match.
KeptChars == CharsOf(LowerLetters) \cup CharsOf(Digits) \cup Whitespace

\* text.replace(/[^a-z0-9\s]/g, '')
RECURSIVE stripNonAlnum(_)
stripNonAlnum(s) ==
    IF s = "" THEN ""
    ELSE LET c == CharAt(s, 1)
             rest == stripNonAlnum(SubSeq(s, 2, Len(s)))
         IN IF c \in KeptChars
            THEN c \o rest
            ELSE rest

\* The first index >= i of s whose character is not in cs, Len(s)+1 if none.
RECURSIVE skipWhile(_, _, _)
skipWhile(s, i, cs) ==
    IF i > Len(s) \/ CharAt(s, i) \notin cs THEN i ELSE skipWhile(s, i + 1, cs)

\* s.split(/\s+/) from index i, cur being the piece read so far: a leading or
\* trailing run of whitespace yields an empty piece, as in JavaScript.
RECURSIVE splitWsFrom(_, _, _)
splitWsFrom(s, i, cur) ==
    IF i > Len(s) THEN <<cur>>
    ELSE IF CharAt(s, i) \in Whitespace
         THEN <<cur>> \o splitWsFrom(s, skipWhile(s, i, Whitespace), "")
         ELSE splitWsFrom(s, i + 1, cur \o CharAt(s, i))

splitWhitespace(s) == splitWsFrom(s, 1, "")

\* The first index >= i of s where two line feeds start, Len(s)+1 if none.
nextSeparator(s, i) ==
    LET starts == {j \in i..(Len(s) - 1) : CharAt(s, j) = "\n" /\ CharAt(s, j + 1) = "\n"}
    IN IF starts = {} THEN Len(s) + 1
       ELSE CHOOSE j \in starts : \A k \in starts : j <= k

\* s.split(/\n\n+/) from index i: a separator is a run of two or more line
\* feeds, and a leading or trailing separator yields an empty piece.
RECURSIVE splitParaFrom(_, _)
splitParaFrom(s, i) ==
    LET j == nextSeparator(s, i)
    IN IF j > Len(s) THEN <<SubSeq(s, i, Len(s))>>
       ELSE <<SubSeq(s, i, j - 1)>> \o splitParaFrom(s, skipWhile(s, j, {"\n"}))

splitParagraphs(s) == splitParaFrom(s, 1)

RECURSIVE trimEnd(_)
trimEnd(s) ==
    IF s # "" /\ CharAt(s, Len(s)) \in Whitespace
    THEN trimEnd(SubSeq(s, 1, Len(s) - 1))
    ELSE s

trimStart(s) == SubSeq(s, skipWhile(s, 1, Whitespace), Len(s))

trim(s) == trimEnd(trimStart(s))

startsWith(s, p) == Len(s) >= Len(p) /\ SubSeq(s, 1, Len(p)) = p

\* String.prototype.includes
includesText(s, p) ==
    \E i \in 1..(Len(s) - Len(p) + 1) : SubSeq(s, i, i + Len(p) - 1) = p

\* Array.prototype.includes
includes(seq, x) == \E i \in 1..Len(seq) : seq[i] = x

\* Array.prototype.join
RECURSIVE join(_, _)
join(seq, sep) ==
    IF Len(seq) = 0 THEN ""
    ELSE IF Len(seq) = 1 THEN seq[1]
    ELSE seq[1] \o sep \o join(Tail(seq), sep)

\* All sequences over S of length at most n.
SeqsUpTo(S, n) == UNION {[1..k -> S] : k \in 0..n}

-----------------------------------------------------------------------------
(* analyzer: significantWords. *)

stopWords ==
    {"the", "a", "an", "and", "or", "but", "in", "on", "at", "to", "for",
     "of", "with", "by", "from", "is", "are", "was", "were", "be", "been", "being",
     "have", "has", "had", "do", "does", "did", "will", "would", "could", "should",
     "not", "no", "without", "before", "after", "about", "that", "this", "it"}

\* A filter that keeps the tokens of two characters.
significantWordsKeepingShort(text) ==
    SelectSeq(splitWhitespace(stripNonAlnum(toLowerCase(text))),
              LAMBDA w : Len(w) > 1 /\ w \notin stopWords)

significantWords(text) ==
    SelectSeq(splitWhitespace(stripNonAlnum(toLowerCase(text))),
              LAMBDA w : Len(w) > 2 /\ w \notin stopWords)

\* The raw words the texts of significantWords calls are made of, joined by
\* single spaces: punctuation, capitals, a hyphenated pair, a word with its
\* own white space, stop words.
RawWords == {"CSS,", "The", "a-b", " x2y\n", "...been"}

RawTexts == {join(ws, " ") : ws \in SeqsUpTo(RawWords, MaxWords)}

NoWordsCall == [called |-> FALSE, tokens |-> <<>>]

CallSignificantWords ==
    /\ ~swOut.called
    /\ swOut' = [called |-> TRUE, tokens |-> significantWords(swText)]
    /\ UNCHANGED <<swText, simVars, annVars, mdVars, stVars, teamVars, watchVars,
                   waitVars, raceProcs, applyVars>>

-----------------------------------------------------------------------------
(* team aggregator: isSimilar; annotation store: isFrictionMatch. *)

\* overlap / n >= 0.8 on the doubles JavaScript computes: for the small integers
\* of the model the quotient rounds to the double 0.8 exactly when it is 4/5.
ratioAtLeastThresholdStrict(overlap, n) == overlap * 10 > 8 * n
ratioAtLeastThreshold(overlap, n) == overlap * 10 >= 8 * n

\* wordsA.filter(w => wordsB.includes(w)).length
overlapCount(wordsA, wordsB) ==
    Len(SelectSeq(wordsA, LAMBDA w : includes(wordsB, w)))

isSimilar(textA, textB) ==
    LET wordsA == significantWords(textA)
        wordsB == significantWords(textB)
    IN IF Len(wordsA) = 0 \/ Len(wordsB) = 0 THEN FALSE
       ELSE LET overlap == overlapCount(wordsA, wordsB)
            IN ratioAtLeastThreshold(overlap, Len(wordsA))
               \/ ratioAtLeastThreshold(overlap, Len(wordsB))

isFrictionMatch(annotationTitle, frictionTitle) ==
    LET wordsA == significantWords(annotationTitle)
        wordsB == significantWords(frictionTitle)
    IN IF Len(wordsA) = 0 \/ Len(wordsB) = 0 THEN FALSE
       ELSE LET overlap == overlapCount(wordsA, wordsB)
            IN ratioAtLeastThreshold(overlap, Len(wordsA))
               \/ ratioAtLeastThreshold(overlap, Len(wordsB))

-----------------------------------------------------------------------------
(* The similarity calls: the arguments are drawn in SimInit, an action is  *)
(* one call, with the arguments in both orders.                           *)

\* Raw words of the first argument: upper case and punctuation to normalise,
\* a stop word to drop.
SimWords == {"CSS,", "sql", "the"}

SimTextsA == {join(ws, " ") : ws \in SeqsUpTo(SimWords, MaxWords)}

SimTextsB ==
    {"", "The", "css", "Sql!", "css sql", "css api", "api  css\tgit",
     "css api api api api api", "sql css css"}

NoSimCall == [fn |-> "none", ab |-> FALSE, ba |-> FALSE]

CallIsSimilar ==
    /\ simOut = NoSimCall
    /\ simOut' = [fn |-> "isSimilar",
                  ab |-> isSimilar(simA, simB),
                  ba |-> isSimilar(simB, simA)]
    /\ UNCHANGED <<simA, simB, annVars, mdVars, stVars, teamVars, wordsVars, watchVars,
                   waitVars, raceProcs, applyVars>>

CallIsFrictionMatch ==
    /\ simOut = NoSimCall
    /\ simOut' = [fn |-> "isFrictionMatch",
                  ab |-> isFrictionMatch(simA, simB),
                  ba |-> isFrictionMatch(simB, simA)]
    /\ UNCHANGED <<simA, simB, annVars, mdVars, stVars, teamVars, wordsVars, watchVars,
                   waitVars, raceProcs, applyVars>>

-----------------------------------------------------------------------------
(* Annotation store: loadAnnotations, saveAnnotations, setAnnotation.      *)
(* The file is Absent, not JSON (json FALSE), or a JSON store.             *)

STORE_VERSION == 1

\* The value of a property that is not set; JSON.stringify drops such a property
\* and it reads back as undefined, so the file keeps the same marker.
Undefined == "<undefined>"

NotJson == [exists |-> TRUE, json |-> FALSE]

StoreFile(version, annotations) ==
    [exists |-> TRUE, json |-> TRUE, version |-> version, annotations |-> annotations]

\* Whether saveAnnotations succeeds is the environment's choice; when it fails
\* (mkdirSync or the open raising) the file is as it was.
WriteOutcomes == {TRUE, FALSE}

\* A load that takes a store of any version.
loadAnnotationsOfAnyVersion(file) ==
    IF ~file.exists THEN <<>>
    ELSE IF ~file.json THEN <<>>
    ELSE file.annotations

loadAnnotations(file) ==
    IF ~file.exists THEN <<>>
    ELSE IF ~file.json THEN <<>>
    ELSE IF file.version # STORE_VERSION THEN <<>>
    ELSE file.annotations

saveAnnotations(annotations) == StoreFile(STORE_VERSION, annotations)

\* annotations.findIndex(a => isFrictionMatch(a.frictionTitle, title)), 1-based,
\* 0 for JavaScript's -1.
findMatchIndex(annotations, title) ==
    LET hits == {i \in 1..Len(annotations) :
                    isFrictionMatch(annotations[i].frictionTitle, title)}
    IN IF hits = {} THEN 0 ELSE CHOOSE i \in hits : \A j \in hits : i <= j

\* An upsert that never replaces.
upsertAlwaysAppending(annotations, annotation) == Append(annotations, annotation)

\* The store setAnnotation saves.
upsertAnnotation(annotations, annotation) ==
    LET existingIdx == findMatchIndex(annotations, annotation.frictionTitle)
    IN IF existingIdx >= 1
       THEN [annotations EXCEPT ![existingIdx] = annotation]
       ELSE Append(annotations, annotation)

AnnTitles == {"css", "Sql!", "CSS sql", "The"}
AnnStatuses == {"useful", "false-positive"}
AnnNotes == {Undefined, "stale"}

NoAnnCall == [op |-> "none"]

AnnInitFiles ==
    {Absent, NotJson, StoreFile(STORE_VERSION, <<>>),
     StoreFile(2, <<[frictionTitle |-> "css", status |-> "useful",
                     annotatedAt |-> 0, note |-> Undefined]>>)}

\* annotatedAt is the time of the call: the number of the call.
SetAnnotation(title, status, note, writable) ==
    /\ annCalls < MaxAnnCalls
    /\ LET annotations == loadAnnotations(annFile)
           annotation == [frictionTitle |-> title, status |-> status,
                          annotatedAt |-> annCalls + 1, note |-> note]
           saved == saveAnnotations(upsertAnnotation(annotations, annotation))
       IN /\ annFile' = IF writable THEN saved ELSE annFile
          /\ annLast' = [op |-> "setAnnotation", title |-> title,
                         before |-> annFile, threw |-> ~writable,
                         returned |-> annotation]
          /\ annCalls' = annCalls + 1
    /\ UNCHANGED <<simVars, mdVars, stVars, teamVars, wordsVars, watchVars,
                   waitVars, raceProcs, applyVars>>

\* JavaScript's undefined as a returned value.
UndefinedValue == [undefined |-> TRUE]

\* A clear by title that drops only the first match.
clearedFirstMatchOnly(annotations, title) ==
    LET idx == findMatchIndex(annotations, title)
    IN IF idx = 0 THEN annotations
       ELSE SubSeq(annotations, 1, idx - 1) \o SubSeq(annotations, idx + 1, Len(annotations))

\* annotations.filter(a => !isFrictionMatch(a.frictionTitle, title))
clearedByTitle(annotations, title) ==
    LET keep(a) == ~isFrictionMatch(a.frictionTitle, title)
    IN SelectSeq(annotations, keep)

\* clearAnnotation: the list it saves and the count it returns.
clearAnnotation(file, title) ==
    LET annotations == loadAnnotations(file)
    IN IF title = Undefined
       THEN [saved |-> saveAnnotations(<<>>), returned |-> Len(annotations)]
       ELSE LET filtered == clearedByTitle(annotations, title)
            IN [saved |-> saveAnnotations(filtered),
                returned |-> Len(annotations) - Len(filtered)]

findAnnotation(file, frictionTitle) ==
    LET annotations == loadAnnotations(file)
        idx == findMatchIndex(annotations, frictionTitle)
    IN IF idx = 0 THEN UndefinedValue ELSE annotations[idx]

\* A filter that takes every annotation for a false positive.
falsePositivesOfAnyStatus(annotations) == annotations

\* annotations.filter(a => a.status === 'false-positive')
falsePositivesOf(annotations) ==
    LET keep(a) == a.status = "false-positive"
    IN SelectSeq(annotations, keep)

filterAnnotatedFrictions(frictions, file) ==
    LET falsePositives == falsePositivesOf(loadAnnotations(file))
        isFP(friction) ==
            \E i \in 1..Len(falsePositives) :
                isFrictionMatch(falsePositives[i].frictionTitle, friction.title)
        notFP(friction) == ~isFP(friction)
        skipped == SelectSeq(frictions, isFP)
        skippedTitles == [i \in 1..Len(skipped) |-> skipped[i].title]
    IN IF Len(falsePositives) = 0
       THEN [filteredFrictions |-> frictions, skippedCount |-> 0, skippedTitles |-> <<>>]
       ELSE [filteredFrictions |-> SelectSeq(frictions, notFP),
             skippedCount |-> Len(skippedTitles),
             skippedTitles |-> skippedTitles]

\* A stored annotation.
Annotation(frictionTitle, status, annotatedAt, note) ==
    [frictionTitle |-> frictionTitle, status |-> status,
     annotatedAt |-> annotatedAt, note |-> note]

\* The titles clearAnnotation and findAnnotation are called with.
AnnQueryTitles == {"css", "Sql!", "git npm api", ""}

\* The friction lists filterAnnotatedFrictions is called with.
AnnFrictionLists ==
    {<<>>,
     <<[title |-> "Sql css"], [title |-> "git"], [title |-> "css"]>>,
     <<[title |-> "The"], [title |-> "CSS"], [title |-> "npm git"], [title |-> "CSS"]>>}

\* The annotation files the query commands can meet.
AnnOpsFiles ==
    {Absent, NotJson,
     StoreFile(2, <<Annotation("css", "false-positive", 1, Undefined)>>),
     StoreFile(STORE_VERSION, <<>>),
     StoreFile(STORE_VERSION, <<Annotation("css", "useful", 1, Undefined),
                                Annotation("git", "false-positive", 2, "stale")>>),
     StoreFile(STORE_VERSION, <<Annotation("git npm", "useful", 1, Undefined),
                                Annotation("CSS sql", "false-positive", 3, Undefined),
                                Annotation("Sql!", "useful", 2, "stale"),
                                Annotation("css", "false-positive", 4, Undefined)>>)}

ClearAnnotation(title, writable) ==
    /\ LET result == clearAnnotation(annFile, title)
       IN /\ annFile' = IF writable THEN result.saved ELSE annFile
          /\ annLast' = [op |-> "clearAnnotation", title |-> title,
                         before |-> annFile, threw |-> ~writable,
                         returned |-> result.returned]
    /\ UNCHANGED <<annCalls, simVars, mdVars, stVars, teamVars, wordsVars, watchVars,
                   waitVars, raceProcs, applyVars>>

FindAnnotation(frictionTitle) ==
    /\ annLast' = [op |-> "findAnnotation", title |-> frictionTitle,
                   before |-> annFile, threw |-> FALSE,
                   returned |-> findAnnotation(annFile, frictionTitle)]
    /\ UNCHANGED <<annFile, annCalls, simVars, mdVars, stVars, teamVars, wordsVars, watchVars,
                   waitVars, raceProcs, applyVars>>

FilterAnnotatedFrictions(frictions) ==
    /\ annLast' = [op |-> "filterAnnotatedFrictions", frictions |-> frictions,
                   before |-> annFile, threw |-> FALSE,
                   returned |-> filterAnnotatedFrictions(frictions, annFile)]
    /\ UNCHANGED <<annFile, annCalls, simVars, mdVars, stVars, teamVars, wordsVars, watchVars,
                   waitVars, raceProcs, applyVars>>

\* The titles clearAnnotation is called with after setAnnotation calls.
AnnClearTitles == {"Sql!", "css"}

\* clearAnnotation called on a store that setAnnotation calls have built.
ClearAfterSets ==
    /\ annCalls = MaxAnnCalls
    /\ annLast.op = "setAnnotation"
    /\ \E title \in AnnClearTitles, writable \in WriteOutcomes :
           ClearAnnotation(title, writable)

-----------------------------------------------------------------------------
(* applier: extractRules, ruleExistsInContent, mergeClaudeMd.              *)
(* The CLAUDE.md file is Absent or [exists |-> TRUE, text |-> its text].   *)

SECTION_HEADER == "## Claude Insights Additions"

TextFile(text) == [exists |-> TRUE, text |-> text]

\* seq.map(p => p.trim())
trimAll(seq) == [i \in 1..Len(seq) |-> trim(seq[i])]

extractRules(claudeMdAdditions) ==
    SelectSeq(trimAll(splitParagraphs(claudeMdAdditions)),
              LAMBDA p : /\ Len(p) > 0
                         /\ ~startsWith(p, "#")
                         /\ ~startsWith(p, ">")
                         /\ ~startsWith(p, "> _Why"))

\* The check made with the aggregator's two-sided predicate.
ruleExistsInContentTwoSided(rule, existingParagraphs) ==
    \E k \in 1..Len(existingParagraphs) : isSimilar(rule, existingParagraphs[k])

\* A check that finds a rule of no significant word in no content.
ruleExistsInContentEmptyIsNew(rule, existingParagraphs) ==
    LET ruleWords == significantWords(rule)
    IN /\ Len(ruleWords) > 0
       /\ \E k \in 1..Len(existingParagraphs) :
              ratioAtLeastThreshold(
                  overlapCount(ruleWords, significantWords(existingParagraphs[k])),
                  Len(ruleWords))

\* A loop that returns after looking at the first paragraph only.
ruleExistsInContentFirstOnly(rule, existingParagraphs) ==
    LET ruleWords == significantWords(rule)
    IN IF Len(ruleWords) = 0 THEN TRUE
       ELSE /\ Len(existingParagraphs) > 0
            /\ ratioAtLeastThreshold(
                   overlapCount(ruleWords, significantWords(existingParagraphs[1])),
                   Len(ruleWords))

ruleExistsInContent(rule, existingParagraphs) ==
    LET ruleWords == significantWords(rule)
    IN IF Len(ruleWords) = 0 THEN TRUE
       ELSE \E k \in 1..Len(existingParagraphs) :
                LET paragraphWords == significantWords(existingParagraphs[k])
                    overlap == overlapCount(ruleWords, paragraphWords)
                IN ratioAtLeastThreshold(overlap, Len(ruleWords))

\* existingContent.split(/\n\n+/).map(p => p.trim()).filter(p => p.length > 0)
paragraphsOf(content) ==
    SelectSeq(trimAll(splitParagraphs(content)), LAMBDA p : Len(p) > 0)

\* A merge that writes the additions section alone, dropping what the file held.
newContentOverwriting(fileExists, existingContent, rulesToAdd) ==
    SECTION_HEADER \o "\n\n" \o join(rulesToAdd, "\n\n") \o "\n"

newContentOf(fileExists, existingContent, rulesToAdd) ==
    IF fileExists
    THEN IF includesText(existingContent, SECTION_HEADER)
         THEN trimEnd(existingContent) \o "\n\n" \o join(rulesToAdd, "\n\n") \o "\n"
         ELSE trimEnd(existingContent)
              \o ("\n\n" \o SECTION_HEADER \o "\n\n" \o join(rulesToAdd, "\n\n") \o "\n")
    ELSE SECTION_HEADER \o "\n\n" \o join(rulesToAdd, "\n\n") \o "\n"

\* What writeFileSync does is the environment's choice: it writes the file;
\* it fails to open it (permissions) and the file is as it was; or it opens
\* the file, which creates or truncates it, and fails to write (disk full).
SafeWriteOutcomes == {"written", "openFailed", "writeFailed"}

\* The file a failed write leaves after the open truncated it: no byte of the
\* content, which for a JSON document is not JSON.
truncatedFile(content) ==
    IF "text" \in DOMAIN content THEN [exists |-> TRUE, text |-> ""]
    ELSE [exists |-> TRUE, json |-> FALSE]

\* safeWrite: the file after the call, and whether the call threw.
safeWrite(file, content, outcome) ==
    CASE outcome = "written" -> [file |-> content, threw |-> FALSE]
      [] outcome = "openFailed" -> [file |-> file, threw |-> TRUE]
      [] outcome = "writeFailed" -> [file |-> truncatedFile(content), threw |-> TRUE]

\* What one call does: the file it leaves, the status and counts it returns
\* (status "threw" when safeWrite raised) and the rules it queued.
mergeClaudeMd(file, claudeMdAdditions, outcome) ==
    LET newRules == extractRules(claudeMdAdditions)
        fileExists == file.exists
        existingContent == IF fileExists THEN file.text ELSE ""
        existingParagraphs == paragraphsOf(existingContent)
        rulesToAdd == SelectSeq(newRules,
                          LAMBDA rule : ~ruleExistsInContent(rule, existingParagraphs))
        rulesAdded == Len(rulesToAdd)
        rulesSkipped == Len(newRules) - Len(rulesToAdd)
        written == safeWrite(file,
                       TextFile(newContentOf(fileExists, existingContent, rulesToAdd)),
                       outcome)
    IN IF Len(newRules) = 0
       THEN [file |-> file, status |-> "unchanged", rulesAdded |-> 0,
             rulesSkipped |-> 0, rulesToAdd |-> <<>>]
       ELSE IF Len(rulesToAdd) = 0
       THEN [file |-> file, status |-> "unchanged", rulesAdded |-> 0,
             rulesSkipped |-> rulesSkipped, rulesToAdd |-> <<>>]
       ELSE [file |-> written.file,
             status |-> IF written.threw THEN "threw"
                        ELSE IF fileExists THEN "updated" ELSE "created",
             rulesAdded |-> rulesAdded, rulesSkipped |-> rulesSkipped,
             rulesToAdd |-> rulesToAdd]

\* The claudeMdAdditions strings of the calls: no rule at all, headers and
\* blockquotes around one rule, two rules similar to each other, a rule of five
\* significant words, a rule longer than a paragraph it shares a word with, a
\* rule of stop words only, a rule whose second line is the section header.
MdAdditions ==
    {"",
     "Keep it\n## Claude Insights Additions\n",
     "# CLAUDE.md Additions\n\n",
     "# Additions\n\nRun lint.\n\n> _Why: speed._\n",
     "Run lint.\n\nRun LINT now!\n",
     "css sql api git npm\n",
     "Css, sql; api.\n\n\nThe\n"}

MdInitFiles ==
    {Absent,
     TextFile(""),
     TextFile("# Rules\n\nRun lint first.\n"),
     TextFile("# Rules\n\ncss"),
     TextFile("## Claude Insights Additions\n\ncss sql api git\n\n\n  css  \n \n")}

NoMdCall == [op |-> "none", input |-> "", status |-> "none"]

MergeClaudeMd(claudeMdAdditions, outcome) ==
    /\ mdCalls < MaxMdCalls
    /\ LET r == mergeClaudeMd(claudeMd, claudeMdAdditions, outcome)
       IN /\ claudeMd' = r.file
          /\ mdLast' = [op |-> "mergeClaudeMd",
                        input |-> claudeMdAdditions,
                        prevInput |-> mdLast.input,
                        prevStatus |-> mdLast.status,
                        before |-> claudeMd,
                        status |-> r.status,
                        rulesAdded |-> r.rulesAdded,
                        rulesSkipped |-> r.rulesSkipped,
                        rulesToAdd |-> r.rulesToAdd]
    /\ mdCalls' = mdCalls + 1
    /\ UNCHANGED <<simVars, annVars, stVars, teamVars, wordsVars, watchVars,
                   waitVars, raceProcs, applyVars>>

-----------------------------------------------------------------------------
(* applier: mergeSettings.  JSON values carry their kind: "missing" (the   *)
(* key is not set), "object" (map: key -> value), "array" (items, and the   *)
(* names of properties assigned to the array object, which JSON.stringify  *)
(* does not write), "prim" (a string, number or boolean).  A hook entry is *)
(* [command, prompt], each a string or Undefined; a server config is an    *)
(* opaque value.  The settings file is Absent, NotJson, or holds a JSON    *)
(* object with the keys hooks, mcpServers and permissions.                 *)

JMissing == [kind |-> "missing"]
JPrim == [kind |-> "prim"]
JObject(map) == [kind |-> "object", map |-> map]
JArray(items) == [kind |-> "array", items |-> items, named |-> {}]

\* The empty map, and a map of one key.
EmptyMap == [k \in {} |-> JMissing]
OneKey(k, v) == [x \in {k} |-> v]

SettingsFileOf(value) == [exists |-> TRUE, json |-> TRUE, value |-> value]

\* entryObj.command ?? entryObj.prompt ?? ''
contentKey(entry) ==
    IF entry.command # Undefined THEN entry.command
    ELSE IF entry.prompt # Undefined THEN entry.prompt
    ELSE ""

\* existingEntries.some(e => key of e === contentKey)
isDuplicate(existingEntries, newEntry) ==
    \E k \in 1..Len(existingEntries) :
        contentKey(existingEntries[k]) = contentKey(newEntry)

\* The duplicate test made against the entries read from the file only, not
\* against those pushed earlier in the same call.
pushNewEntriesSnapshot(existingEntries, newEntries) ==
    existingEntries \o SelectSeq(newEntries, LAMBDA e : ~isDuplicate(existingEntries, e))

\* A merge that puts the new entries in front of the existing ones.
pushNewEntriesInFront(existingEntries, newEntries) ==
    SelectSeq(newEntries, LAMBDA e : ~isDuplicate(existingEntries, e)) \o existingEntries

\* for (const newEntry of newEntries) if (!isDuplicate) existingEntries.push(newEntry)
RECURSIVE pushNewEntries(_, _)
pushNewEntries(existingEntries, newEntries) ==
    IF Len(newEntries) = 0 THEN existingEntries
    ELSE pushNewEntries(
             IF isDuplicate(existingEntries, Head(newEntries)) THEN existingEntries
             ELSE Append(existingEntries, Head(newEntries)),
             Tail(newEntries))

\* obj[key] ?? fallback, for obj of any kind: a key of an object's map, else
\* undefined (an array or a primitive has no such property).
lookupOr(obj, key, fallback) ==
    IF obj.kind = "object" /\ key \in DOMAIN obj.map THEN obj.map[key] ELSE fallback

\* obj[key] = value: sets the key of an object, a named property of an array,
\* and raises a TypeError on a primitive (the module is strict-mode code).
assignKey(obj, key, value) ==
    IF obj.kind = "object"
    THEN [threw |-> FALSE,
          obj |-> JObject([k \in DOMAIN obj.map \cup {key} |->
                              IF k = key THEN value ELSE obj.map[k]])]
    ELSE IF obj.kind = "array"
    THEN [threw |-> FALSE, obj |-> [obj EXCEPT !.named = @ \cup {key}]]
    ELSE [threw |-> TRUE, obj |-> obj]

\* One round of the loop over Object.entries(newHooks).
mergeHookEvent(acc, eventKey, newEntries) ==
    IF acc.threw \/ newEntries.kind # "array" THEN acc
    ELSE LET existingEntries == lookupOr(acc.hooks, eventKey, JArray(<<>>))
         IN IF existingEntries.kind # "array"
            THEN LET set == assignKey(acc.hooks, eventKey, newEntries)
                 IN [hooks |-> set.obj, changed |-> TRUE, threw |-> set.threw]
            ELSE LET pushed == pushNewEntries(existingEntries.items, newEntries.items)
                     set == assignKey(acc.hooks, eventKey, JArray(pushed))
                 IN [hooks |-> set.obj,
                     changed |-> acc.changed \/ Len(pushed) > Len(existingEntries.items),
                     threw |-> set.threw]

\* The events in the order Object.entries lists them.
EventOrder == <<"PreToolUse", "Stop">>

RECURSIVE mergeHookEvents(_, _, _)
mergeHookEvents(acc, newHooks, k) ==
    IF k > Len(EventOrder) THEN acc
    ELSE mergeHookEvents(
             IF EventOrder[k] \in DOMAIN newHooks
             THEN mergeHookEvent(acc, EventOrder[k], newHooks[EventOrder[k]])
             ELSE acc,
             newHooks, k + 1)

\* The new fragment's mcpServers: the configBlock of the last recommendation of
\* each server name.
newMcpServersOf(mcpRecommendations) ==
    [name \in {mcpRecommendations[k].serverName : k \in 1..Len(mcpRecommendations)} |->
        LET last == CHOOSE k \in 1..Len(mcpRecommendations) :
                        /\ mcpRecommendations[k].serverName = name
                        /\ \A j \in (k + 1)..Len(mcpRecommendations) :
                               mcpRecommendations[j].serverName # name
        IN mcpRecommendations[last].configBlock]

\* A merge that lets the new config replace the one a server already has.
mergeMcpServersOverwriting(existingMcp, newMcpServers) ==
    IF existingMcp.kind = "prim" THEN [mcp |-> existingMcp, changed |-> FALSE, threw |-> TRUE]
    ELSE IF existingMcp.kind = "array"
    THEN [mcp |-> [existingMcp EXCEPT !.named = @ \cup DOMAIN newMcpServers],
          changed |-> TRUE, threw |-> FALSE]
    ELSE [mcp |-> JObject([n \in DOMAIN existingMcp.map \cup DOMAIN newMcpServers |->
                              IF n \in DOMAIN newMcpServers THEN newMcpServers[n]
                              ELSE existingMcp.map[n]]),
          changed |-> \E n \in DOMAIN newMcpServers :
                         n \notin DOMAIN existingMcp.map \/ existingMcp.map[n] # newMcpServers[n],
          threw |-> FALSE]

\* for (const [serverName, config] of Object.entries(newMcpServers))
\*   if (!(serverName in existingMcp)) existingMcp[serverName] = config
\* `in` raises a TypeError on a primitive; an array has none of the names.
mergeMcpServers(existingMcp, newMcpServers) ==
    IF existingMcp.kind = "prim" THEN [mcp |-> existingMcp, changed |-> FALSE, threw |-> TRUE]
    ELSE IF existingMcp.kind = "array"
    THEN [mcp |-> [existingMcp EXCEPT !.named = @ \cup DOMAIN newMcpServers],
          changed |-> TRUE, threw |-> FALSE]
    ELSE [mcp |-> JObject([n \in DOMAIN existingMcp.map \cup DOMAIN newMcpServers |->
                              IF n \in DOMAIN existingMcp.map THEN existingMcp.map[n]
                              ELSE newMcpServers[n]]),
          changed |-> DOMAIN newMcpServers \ DOMAIN existingMcp.map # {},
          threw |-> FALSE]

\* JSON.stringify followed by JSON.parse: the named properties of an array
\* object are not written.
jsonRoundTripValue(v) == IF v.kind = "array" THEN JArray(v.items) ELSE v

jsonRoundTrip(obj) ==
    [obj EXCEPT !.hooks = jsonRoundTripValue(@), !.mcpServers = jsonRoundTripValue(@)]

EmptySettings == [hooks |-> JMissing, mcpServers |-> JMissing, permissions |-> JMissing]

\* existing.key ?? {}
orEmptyObject(v) == IF v.kind = "missing" THEN JObject(EmptyMap) ELSE v

\* Object.keys(newSettings).length === 0, never.
nothingToMergeNever(fragment) == FALSE

\* Object.keys(newSettings).length === 0
nothingToMerge(fragment) ==
    fragment.settingsJson.hooks.kind = "missing" /\ Len(fragment.mcpRecommendations) = 0

\* What one call does: the file it leaves and the status it returns, "typeError"
\* when the merge raised and "threw" when safeWrite raised.
mergeSettings(file, fragment, outcome) ==
    LET fileExists == file.exists
        existing == IF fileExists /\ file.json THEN file.value ELSE EmptySettings
        newHooks == fragment.settingsJson.hooks
        doHooks == newHooks.kind = "object" /\ DOMAIN newHooks.map # {}
        hooksDone ==
            IF doHooks
            THEN mergeHookEvents([hooks |-> orEmptyObject(existing.hooks),
                                  changed |-> FALSE, threw |-> FALSE],
                                 newHooks.map, 1)
            ELSE [hooks |-> existing.hooks, changed |-> FALSE, threw |-> FALSE]
        doMcp == Len(fragment.mcpRecommendations) > 0
        mcpDone ==
            IF doMcp
            THEN mergeMcpServers(orEmptyObject(existing.mcpServers),
                                 newMcpServersOf(fragment.mcpRecommendations))
            ELSE [mcp |-> existing.mcpServers, changed |-> FALSE, threw |-> FALSE]
        changed == hooksDone.changed \/ mcpDone.changed
        merged == [existing EXCEPT !.hooks = hooksDone.hooks, !.mcpServers = mcpDone.mcp]
        written == safeWrite(file, SettingsFileOf(jsonRoundTrip(merged)), outcome)
    IN IF nothingToMerge(fragment) THEN [file |-> file, status |-> "unchanged"]
       ELSE IF hooksDone.threw \/ mcpDone.threw THEN [file |-> file, status |-> "typeError"]
       ELSE IF ~changed /\ fileExists THEN [file |-> file, status |-> "unchanged"]
       ELSE [file |-> written.file,
             status |-> IF written.threw THEN "threw"
                        ELSE IF fileExists THEN "updated" ELSE "created"]

Entry(command, prompt) == [command |-> command, prompt |-> prompt]

Fragment(hooks, mcpRecommendations) ==
    [settingsJson |-> [hooks |-> hooks], mcpRecommendations |-> mcpRecommendations]

Rec(serverName, configBlock) == [serverName |-> serverName, configBlock |-> configBlock]

EmptyFragment == Fragment(JMissing, <<>>)

\* The fragments of the calls: nothing, an empty hooks map, one entry, the same
\* identity key twice in one list, a value that is no array, an empty list,
\* servers alone, hooks and servers together.
StFragments ==
    {EmptyFragment,
     Fragment(JObject(EmptyMap), <<>>),
     Fragment(JObject(OneKey("PreToolUse", JArray(<<Entry(Undefined, "check")>>))), <<>>),
     Fragment(JObject(OneKey("PreToolUse",
                  JArray(<<Entry("npm test", Undefined), Entry("npm test", "check")>>))), <<>>),
     Fragment(JObject(OneKey("PreToolUse", JPrim)), <<>>),
     Fragment(JObject(OneKey("Stop", JArray(<<>>))), <<>>),
     Fragment(JMissing, <<Rec("playwright", "new")>>),
     Fragment(JObject([e \in {"PreToolUse", "Stop"} |-> JArray(<<Entry(Undefined, "verify")>>)]),
              <<Rec("postgres", "new"), Rec("postgres", "newer")>>)}

StInitFiles ==
    {Absent,
     NotJson,
     SettingsFileOf(EmptySettings),
     SettingsFileOf([hooks |-> JObject(OneKey("PreToolUse", JArray(<<Entry(Undefined, "check")>>))),
                     mcpServers |-> JObject(OneKey("playwright", "old")),
                     permissions |-> JPrim]),
     SettingsFileOf([EmptySettings EXCEPT
                     !.hooks = JObject(OneKey("PreToolUse", JPrim)),
                     !.mcpServers = JObject(OneKey("postgres", "old"))]),
     SettingsFileOf([EmptySettings EXCEPT
                     !.hooks = JObject(OneKey("PreToolUse",
                         JArray(<<Entry("lint", Undefined), Entry("lint", Undefined)>>)))]),
     SettingsFileOf([EmptySettings EXCEPT !.hooks = JArray(<<>>)]),
     SettingsFileOf([EmptySettings EXCEPT !.hooks = JPrim]),
     SettingsFileOf([EmptySettings EXCEPT !.mcpServers = JArray(<<>>)]),
     SettingsFileOf([EmptySettings EXCEPT !.mcpServers = JPrim])}

NoStCall == [op |-> "none", input |-> EmptyFragment, status |-> "none"]

\* origin is the file the sequence of calls started from.
MergeSettings(fragment, outcome) ==
    /\ stCalls < MaxStCalls
    /\ LET r == mergeSettings(settingsFile, fragment, outcome)
       IN /\ settingsFile' = r.file
          /\ stLast' = [op |-> "mergeSettings",
                        input |-> fragment,
                        prevInput |-> stLast.input,
                        prevStatus |-> stLast.status,
                        origin |-> IF stLast.op = "none" THEN settingsFile ELSE stLast.origin,
                        before |-> settingsFile,
                        status |-> r.status]
    /\ stCalls' = stCalls + 1
    /\ UNCHANGED <<simVars, annVars, mdVars, teamVars, wordsVars, watchVars,
                   waitVars, raceProcs, applyVars>>

-----------------------------------------------------------------------------
(* team: mergeFrictions and mergeRules, one loop iteration per step.       *)

Friction(title, description, examples) ==
    [title |-> title, description |-> description, examples |-> examples]

ClaudeMdItem(code, why) == [code |-> code, why |-> why]

ReportData(frictions, claudeMdItems) ==
    [frictions |-> frictions, claudeMdItems |-> claudeMdItems]

\* `Report ${memberIdx + 1}`, memberIdx counted from 1 here.
memberLabel(memberIdx) == "Report " \o ToString(memberIdx)

\* The records of all reports in loop order: source order, then the order
\* within the source; each with the index of its report.
RECURSIVE recordsFrom(_, _, _)
recordsFrom(lists, memberIdx, k) ==
    IF memberIdx > Len(lists) THEN <<>>
    ELSE IF k > Len(lists[memberIdx]) THEN recordsFrom(lists, memberIdx + 1, 1)
    ELSE <<[memberIdx |-> memberIdx, record |-> lists[memberIdx][k]]>>
         \o recordsFrom(lists, memberIdx, k + 1)

allFrictions == [i \in 1..Len(allReports) |-> allReports[i].frictions]
allRules == [i \in 1..Len(allReports) |-> allReports[i].claudeMdItems]
frictionRecords == recordsFrom(allFrictions, 1, 1)
ruleRecords == recordsFrom(allRules, 1, 1)

\* A find that looks at the newest entry only.
findSimilarFrictionLastOnly(merged, title) ==
    IF Len(merged) > 0 /\ isSimilar(merged[Len(merged)].title, title)
    THEN Len(merged)
    ELSE 0

\* merged.find(m => isSimilar(m.title, friction.title)): its index, 0 if none.
findSimilarFriction(merged, title) ==
    LET hits == {i \in 1..Len(merged) : isSimilar(merged[i].title, title)}
    IN IF hits = {} THEN 0 ELSE CHOOSE i \in hits : \A j \in hits : i <= j

\* merged.find(m => isSimilar(m.code, rule.code)): its index, 0 if none.
findSimilarRule(merged, code) ==
    LET hits == {i \in 1..Len(merged) : isSimilar(merged[i].code, code)}
    IN IF hits = {} THEN 0 ELSE CHOOSE i \in hits : \A j \in hits : i <= j

\* Push each example that the list does not include yet.
RECURSIVE pushNewExamples(_, _)
pushNewExamples(examples, more) ==
    IF more = <<>> THEN examples
    ELSE pushNewExamples(
            IF includes(examples, Head(more)) THEN examples
            ELSE Append(examples, Head(more)),
            Tail(more))

\* A fold that also takes the later record's description.
foldFrictionTakingText(merged, label, friction) ==
    LET idx == findSimilarFriction(merged, friction.title)
    IN IF idx > 0
       THEN [merged EXCEPT ![idx].description = friction.description]
       ELSE Append(merged, [title |-> friction.title,
                            description |-> friction.description,
                            examples |-> friction.examples,
                            memberCount |-> 1,
                            members |-> <<label>>])

\* One iteration of the inner loop of mergeFrictions.
foldFriction(merged, label, friction) ==
    LET idx == findSimilarFriction(merged, friction.title)
    IN IF idx > 0
       THEN LET existing == merged[idx]
                members == IF includes(existing.members, label)
                           THEN existing.members
                           ELSE Append(existing.members, label)
            IN [merged EXCEPT ![idx] =
                   [existing EXCEPT
                       !.examples = pushNewExamples(existing.examples, friction.examples),
                       !.members = members,
                       !.memberCount = IF includes(existing.members, label)
                                       THEN existing.memberCount
                                       ELSE Len(members)]]
       ELSE Append(merged, [title |-> friction.title,
                            description |-> friction.description,
                            examples |-> friction.examples,
                            memberCount |-> 1,
                            members |-> <<label>>])

\* One iteration of the inner loop of mergeRules.
foldRule(merged, rule) ==
    LET idx == findSimilarRule(merged, rule.code)
    IN IF idx > 0
       THEN LET memberCount == merged[idx].memberCount + 1
            IN [merged EXCEPT ![idx] =
                   [merged[idx] EXCEPT
                       !.memberCount = memberCount,
                       !.priority = IF memberCount >= 2 THEN "High" ELSE "Medium"]]
       ELSE Append(merged, [code |-> rule.code, why |-> rule.why,
                            memberCount |-> 1, priority |-> "Medium"])

\* The reports the team commands are given.
TeamReports ==
    {ReportData(<<>>, <<>>),
     ReportData(<<Friction("css sql", "leak", <<"e1">>)>>,
                <<ClaudeMdItem("css", "once"), ClaudeMdItem("CSS!", "twice")>>),
     ReportData(<<Friction("CSS, sql", "bleed", <<"e1", "e2">>),
                  Friction("git", "push", <<"e5", "e5">>)>>,
                <<ClaudeMdItem("Css", "again")>>),
     ReportData(<<Friction("The", "blank", <<"e3">>),
                  Friction("Sql css", "swap", <<"e3">>),
                  Friction("sql CSS", "swap2", <<"e4">>)>>,
                <<ClaudeMdItem("git npm", "tools"), ClaudeMdItem("The", "blank")>>)}

MergeFrictionsStep ==
    /\ frictionsDone < Len(frictionRecords)
    /\ LET next == frictionRecords[frictionsDone + 1]
       IN teamFrictions' = foldFriction(teamFrictions, memberLabel(next.memberIdx),
                                        next.record)
    /\ frictionsDone' = frictionsDone + 1
    /\ UNCHANGED <<simVars, annVars, mdVars, stVars, wordsVars, watchVars, allReports, teamRules, rulesDone,
                   waitVars, raceProcs, applyVars>>

MergeRulesStep ==
    /\ rulesDone < Len(ruleRecords)
    /\ teamRules' = foldRule(teamRules, ruleRecords[rulesDone + 1].record)
    /\ rulesDone' = rulesDone + 1
    /\ UNCHANGED <<simVars, annVars, mdVars, stVars, wordsVars, watchVars, allReports, teamFrictions,
                   frictionsDone,
                   waitVars, raceProcs, applyVars>>

-----------------------------------------------------------------------------
(* watcher: watchReport.  Time is the clock of the event loop; a timeout    *)
(* that is due runs before a file-change event of the same instant is       *)
(* handled (the loop runs its timers before it polls), and time does not    *)
(* pass a due timeout.                                                      *)

DEBOUNCE_MS == 300

\* debounceTimer = null
NullTimer == [set |-> FALSE]

\* setTimeout(callback, ms): the handle of a timeout due ms from now.
setTimeout(now, ms) == [set |-> TRUE, due |-> now + ms]

\* A clearTimeout that leaves the timeout set.
clearTimeoutIgnored(pending, handle) == pending

\* clearTimeout(handle): without effect on a timeout that has run.
clearTimeout(pending, handle) ==
    IF handle.set THEN pending \ {handle.due} ELSE pending

TimeoutDue == \E due \in timers : due <= clock

\* The fs watcher reports a change of the file.
FileChange ==
    /\ watcherOpen
    /\ ~TimeoutDue
    /\ clock + DEBOUNCE_MS <= MaxClock
    /\ debounceTimer' = setTimeout(clock, DEBOUNCE_MS)
    /\ timers' = clearTimeout(timers, debounceTimer) \cup {clock + DEBOUNCE_MS}
    /\ lastEventAt' = clock
    /\ runsAfterEvent' = 0
    /\ UNCHANGED <<clock, watcherOpen, lastRunGap, simVars, annVars, mdVars, stVars,
                   teamVars, wordsVars,
                   waitVars, raceProcs, applyVars>>

\* The timeout callback: pipelineFn(filePath, pipelineOptions), its error caught.
DebounceFires ==
    /\ \E due \in timers :
           /\ due <= clock
           /\ timers' = timers \ {due}
    /\ runsAfterEvent' = runsAfterEvent + 1
    /\ lastRunGap' = clock - lastEventAt
    /\ UNCHANGED <<clock, debounceTimer, watcherOpen, lastEventAt, simVars, annVars,
                   mdVars, stVars, teamVars, wordsVars,
                   waitVars, raceProcs, applyVars>>

\* A stop that closes the watcher and leaves the timeout set.
StopLeavingTimeout ==
    /\ watcherOpen
    /\ watcherOpen' = FALSE
    /\ debounceTimer' = NullTimer
    /\ UNCHANGED <<clock, timers, lastEventAt, runsAfterEvent, lastRunGap, simVars,
                   annVars, mdVars, stVars, teamVars, wordsVars,
                   waitVars, raceProcs, applyVars>>

\* handle.stop()
Stop ==
    /\ watcherOpen
    /\ timers' = clearTimeout(timers, debounceTimer)
    /\ debounceTimer' = NullTimer
    /\ watcherOpen' = FALSE
    /\ UNCHANGED <<clock, lastEventAt, runsAfterEvent, lastRunGap, simVars, annVars,
                   mdVars, stVars, teamVars, wordsVars,
                   waitVars, raceProcs, applyVars>>

\* Time passes, up to the next due timeout.
Tick ==
    /\ clock < MaxClock
    /\ ~TimeoutDue
    /\ LET limits == {clock + TickMs, MaxClock} \cup timers
       IN clock' = CHOOSE t \in limits : \A u \in limits : t <= u
    /\ UNCHANGED <<timers, debounceTimer, watcherOpen, lastEventAt, runsAfterEvent,
                   lastRunGap, simVars, annVars, mdVars, stVars, teamVars, wordsVars,
                   waitVars, raceProcs, applyVars>>

-----------------------------------------------------------------------------
(* waitForReport: the promise executor and its three callbacks.  A timer    *)
(* that is due runs before time passes; a cleared timer never runs.         *)

POLL_INTERVAL_MS == 1000

\* A timer that is not set: cleared, run (a timeout), or never made.
NoTimer == [set |-> FALSE]
TimerAt(due) == [set |-> TRUE, due |-> due]

NoWait ==
    [outcome |-> "none", resolved |-> FALSE, pollTimer |-> NoTimer,
     timeoutTimer |-> NoTimer, watcher |-> "none", settles |-> 0, by |-> "none",
     timeoutMs |-> 0]

\* A cleanup that leaves the poll interval running.
cleanupKeepingPoll(w) ==
    [w EXCEPT !.resolved = TRUE,
              !.timeoutTimer = NoTimer,
              !.watcher = IF @ = "open" THEN "closed" ELSE @]

cleanup(w) ==
    [w EXCEPT !.resolved = TRUE,
              !.pollTimer = NoTimer,
              !.timeoutTimer = NoTimer,
              !.watcher = IF @ = "open" THEN "closed" ELSE @]

\* onFound, called by the poll tick or the watch listener (by): resolve.
onFound(w, by) ==
    IF w.resolved THEN w
    ELSE [cleanup(w) EXCEPT !.outcome = "resolved", !.settles = @ + 1, !.by = by]

\* onTimeout: reject with the timeout error.
onTimeout(w) ==
    IF w.resolved THEN w
    ELSE [cleanup(w) EXCEPT !.outcome = "rejected", !.settles = @ + 1, !.by = "timeout"]

\* The promise when waitForReport returns it: resolved at once when the file
\* exists, pending with the interval, the watcher (when the parent directory
\* can be watched) and the timeout otherwise.
waitForReport(exists, timeoutMs, watchable) ==
    IF exists
    THEN [NoWait EXCEPT !.outcome = "resolved", !.settles = 1, !.by = "call",
                        !.timeoutMs = timeoutMs]
    ELSE [NoWait EXCEPT !.outcome = "pending",
                        !.pollTimer = TimerAt(POLL_INTERVAL_MS),
                        !.watcher = IF watchable THEN "open" ELSE "none",
                        !.timeoutTimer = TimerAt(timeoutMs),
                        !.timeoutMs = timeoutMs]

\* The timeouts waitForReport is called with.
WaitTimeouts == {0, POLL_INTERVAL_MS, MaxTimeoutMs}

TimerDue(timer) == timer.set /\ timer.due <= waitNow

\* The report file is written, or removed again.
ReportAppears ==
    /\ ~reportExists
    /\ reportExists' = TRUE
    /\ UNCHANGED <<wait, waitNow, simVars, annVars, mdVars, stVars, teamVars,
                   wordsVars, watchVars, raceProcs, applyVars>>

ReportDisappears ==
    /\ reportExists
    /\ wait.outcome = "pending"
    /\ reportExists' = FALSE
    /\ UNCHANGED <<wait, waitNow, simVars, annVars, mdVars, stVars, teamVars,
                   wordsVars, watchVars, raceProcs, applyVars>>

\* The setInterval callback; the interval is set again unless it was cleared.
PollTick ==
    /\ TimerDue(wait.pollTimer)
    /\ LET next == [wait EXCEPT !.pollTimer = TimerAt(@.due + POLL_INTERVAL_MS)]
       IN wait' = IF reportExists THEN onFound(next, "poll") ELSE next
    /\ UNCHANGED <<reportExists, waitNow, simVars, annVars, mdVars, stVars, teamVars,
                   wordsVars, watchVars, raceProcs, applyVars>>

\* The watch listener, for an event on the parent directory whose file name
\* is or is not the end of targetPath.
WatchEvent(matches) ==
    /\ wait.watcher = "open"
    /\ wait' = IF matches /\ reportExists THEN onFound(wait, "watch") ELSE wait
    /\ UNCHANGED <<reportExists, waitNow, simVars, annVars, mdVars, stVars, teamVars,
                   wordsVars, watchVars, raceProcs, applyVars>>

\* The setTimeout callback.
TimeoutFires ==
    /\ TimerDue(wait.timeoutTimer)
    /\ wait' = onTimeout([wait EXCEPT !.timeoutTimer = NoTimer])
    /\ UNCHANGED <<reportExists, waitNow, simVars, annVars, mdVars, stVars, teamVars,
                   wordsVars, watchVars, raceProcs, applyVars>>

\* Time passes, up to the next due timer.
WaitTick ==
    /\ waitNow < MaxTimeoutMs
    /\ ~TimerDue(wait.pollTimer)
    /\ ~TimerDue(wait.timeoutTimer)
    /\ LET limits == {waitNow + WaitTickMs, MaxTimeoutMs}
                      \cup (IF wait.pollTimer.set THEN {wait.pollTimer.due} ELSE {})
                      \cup (IF wait.timeoutTimer.set THEN {wait.timeoutTimer.due} ELSE {})
       IN waitNow' = CHOOSE t \in limits : \A u \in limits : t <= u
    /\ UNCHANGED <<wait, reportExists, simVars, annVars, mdVars, stVars, teamVars,
                   wordsVars, watchVars, raceProcs, applyVars>>

-----------------------------------------------------------------------------
(* Two processes calling setAnnotation on one store file.  A call reads the *)
(* whole file (loadAnnotations), changes the array in memory, and writes    *)
(* the whole file (saveAnnotations); nothing locks the file in between.     *)

RaceProcs == {1, 2}

\* annotatedAt is the number of the process; the store's earlier annotation has 0.
RaceAnnotation(proc, title) ==
    [frictionTitle |-> title, status |-> "useful", annotatedAt |-> proc,
     note |-> Undefined]

\* A process before its call has read the file.
RaceStart(title) ==
    [pc |-> "start", title |-> title, read |-> Absent, annotations |-> <<>>]

RaceInitFiles ==
    {Absent, NotJson, StoreFile(STORE_VERSION, <<>>),
     StoreFile(STORE_VERSION, <<RaceAnnotation(0, "css")>>)}

\* A write that reads the file again and upserts into what it holds now.
raceWriteMerging(file, proc, me) ==
    saveAnnotations(upsertAnnotation(loadAnnotations(file),
                                     RaceAnnotation(me, proc.title)))

\* saveAnnotations(annotations, annotationsPath): the array in memory replaces
\* whatever the file holds.
raceWrite(file, proc, me) == saveAnnotations(proc.annotations)

\* loadAnnotations, and the upsert in memory.
RaceLoad(me) ==
    /\ raceProcs[me].pc = "start"
    /\ raceProcs' = [raceProcs EXCEPT
           ![me] = [@ EXCEPT !.pc = "loaded",
                             !.read = annFile,
                             !.annotations =
                                 upsertAnnotation(loadAnnotations(annFile),
                                                  RaceAnnotation(me, raceProcs[me].title))]]
    /\ UNCHANGED <<annVars, simVars, mdVars, stVars, teamVars, wordsVars, watchVars,
                   waitVars, applyVars>>

\* saveAnnotations, and the return.
RaceSave(me) ==
    /\ raceProcs[me].pc = "loaded"
    /\ annFile' = raceWrite(annFile, raceProcs[me], me)
    /\ raceProcs' = [raceProcs EXCEPT ![me] = [@ EXCEPT !.pc = "done"]]
    /\ UNCHANGED <<annLast, annCalls, simVars, mdVars, stVars, teamVars, wordsVars,
                   watchVars, waitVars, applyVars>>

-----------------------------------------------------------------------------
(* applier: placeSkills and applyToProject.                                 *)

\* The files under .claude/skills: a map from dirName/filename to the file.
\* No file under .claude/skills.
NoFiles == [path \in {} |-> ""]

fileAt(files, path) == IF path \in DOMAIN files THEN files[path] ELSE Absent

\* The files once the file at path is as a write left it.
withFile(files, path, file) ==
    IF file.exists
    THEN [q \in DOMAIN files \cup {path} |-> IF q = path THEN file ELSE files[q]]
    ELSE files

SkillFile(dirName, filename, content) ==
    [dirName |-> dirName, filename |-> filename, content |-> content]

skillPath(skill) == skill.dirName \o "/" \o skill.filename

\* The loop of placeSkills from skill k on; the write of skill failAt has the
\* outcome given, every other write succeeds.  A write that raises ends the
\* loop.
RECURSIVE placeSkillsFrom(_, _, _, _, _)
placeSkillsFrom(files, skills, k, failAt, outcome) ==
    IF k > Len(skills) THEN [files |-> files, threw |-> FALSE, placed |-> Len(skills)]
    ELSE LET path == skillPath(skills[k])
             written == safeWrite(fileAt(files, path), TextFile(skills[k].content),
                                  IF k = failAt THEN outcome ELSE "written")
         IN IF written.threw
            THEN [files |-> withFile(files, path, written.file), threw |-> TRUE,
                  placed |-> -1]
            ELSE placeSkillsFrom(withFile(files, path, written.file), skills, k + 1,
                                 failAt, outcome)

placeSkills(files, skills, failAt, outcome) ==
    IF Len(skills) = 0 THEN [files |-> files, threw |-> FALSE, placed |-> 0]
    ELSE placeSkillsFrom(files, skills, 1, failAt, outcome)

\* A call that puts CLAUDE.md back as it was when a later step raises.
applyToProjectRollingBack(md, st, sk, output, mdOutcome, stOutcome, failAt, skOutcome) ==
    LET claudeMdResult == mergeClaudeMd(md, output.claudeMdAdditions, mdOutcome)
        settings == mergeSettings(st, output, stOutcome)
        placed == placeSkills(sk, output.skills, failAt, skOutcome)
    IN IF claudeMdResult.status = "threw"
       THEN [claudeMd |-> claudeMdResult.file, settingsFile |-> st, skillFiles |-> sk,
             raised |-> "mergeClaudeMd", claudeMdStatus |-> "threw",
             settingsStatus |-> "none", skillsPlaced |-> -1]
       ELSE IF settings.status \in {"threw", "typeError"}
       THEN [claudeMd |-> md, settingsFile |-> settings.file, skillFiles |-> sk,
             raised |-> "mergeSettings", claudeMdStatus |-> claudeMdResult.status,
             settingsStatus |-> settings.status, skillsPlaced |-> -1]
       ELSE [claudeMd |-> IF placed.threw THEN md ELSE claudeMdResult.file,
             settingsFile |-> settings.file, skillFiles |-> placed.files,
             raised |-> IF placed.threw THEN "placeSkills" ELSE "none",
             claudeMdStatus |-> claudeMdResult.status,
             settingsStatus |-> settings.status, skillsPlaced |-> placed.placed]

\* What one call does to the three targets, the step that raised ("none" when
\* the call returned) and the statuses of the steps it ran: a step that raises
\* ends the call, and the steps after it do not run.
applyToProject(md, st, sk, output, mdOutcome, stOutcome, failAt, skOutcome) ==
    LET claudeMdResult == mergeClaudeMd(md, output.claudeMdAdditions, mdOutcome)
        settings == mergeSettings(st, output, stOutcome)
        placed == placeSkills(sk, output.skills, failAt, skOutcome)
    IN IF claudeMdResult.status = "threw"
       THEN [claudeMd |-> claudeMdResult.file, settingsFile |-> st, skillFiles |-> sk,
             raised |-> "mergeClaudeMd", claudeMdStatus |-> "threw",
             settingsStatus |-> "none", skillsPlaced |-> -1]
       ELSE IF settings.status \in {"threw", "typeError"}
       THEN [claudeMd |-> claudeMdResult.file, settingsFile |-> settings.file,
             skillFiles |-> sk,
             raised |-> "mergeSettings", claudeMdStatus |-> claudeMdResult.status,
             settingsStatus |-> settings.status, skillsPlaced |-> -1]
       ELSE [claudeMd |-> claudeMdResult.file, settingsFile |-> settings.file,
             skillFiles |-> placed.files,
             raised |-> IF placed.threw THEN "placeSkills" ELSE "none",
             claudeMdStatus |-> claudeMdResult.status,
             settingsStatus |-> settings.status, skillsPlaced |-> placed.placed]

AnalyzerOutput(claudeMdAdditions, hooks, mcpRecommendations, skills) ==
    [claudeMdAdditions |-> claudeMdAdditions, settingsJson |-> [hooks |-> hooks],
     mcpRecommendations |-> mcpRecommendations, skills |-> skills]

\* The outputs applyToProject is called with: rules, a hook and two skills;
\* nothing at all; a rule, a server and one skill; a rule and a hook, no skill.
ApplyOutputs ==
    {AnalyzerOutput("Run lint.\n",
                    JObject(OneKey("PreToolUse", JArray(<<Entry(Undefined, "check")>>))),
                    <<>>,
                    <<SkillFile("fix", "SKILL.md", "new"), SkillFile("tdd", "SKILL.md", "red")>>),
     AnalyzerOutput("", JMissing, <<>>, <<>>),
     AnalyzerOutput("Run lint.\n", JMissing, <<Rec("playwright", "new")>>,
                    <<SkillFile("fix", "SKILL.md", "new")>>),
     AnalyzerOutput("css\n",
                    JObject(OneKey("Stop", JArray(<<Entry("npm test", Undefined)>>))),
                    <<>>, <<>>)}

ApplyInitMd == {Absent, TextFile("# Rules\n\ncss")}

ApplyInitSettings ==
    {Absent, SettingsFileOf(EmptySettings),
     SettingsFileOf([EmptySettings EXCEPT !.hooks = JPrim])}

ApplyInitSkills == {NoFiles, [path \in {"fix/SKILL.md"} |-> TextFile("old")]}

NoApplyCall == [op |-> "none", calls |-> 0]

ApplyToProject(output, mdOutcome, stOutcome, failAt, skOutcome) ==
    /\ applyLast.calls < MaxApplyCalls
    /\ LET r == applyToProject(claudeMd, settingsFile, skillFiles, output,
                               mdOutcome, stOutcome, failAt, skOutcome)
       IN /\ claudeMd' = r.claudeMd
          /\ settingsFile' = r.settingsFile
          /\ skillFiles' = r.skillFiles
          /\ applyLast' = [op |-> "applyToProject",
                           calls |-> applyLast.calls + 1,
                           output |-> output,
                           mdBefore |-> claudeMd,
                           settingsBefore |-> settingsFile,
                           skillsBefore |-> skillFiles,
                           raised |-> r.raised,
                           claudeMdStatus |-> r.claudeMdStatus,
                           settingsStatus |-> r.settingsStatus,
                           skillsPlaced |-> r.skillsPlaced]
    /\ UNCHANGED <<simVars, annVars, mdLast, mdCalls, stLast, stCalls, teamVars,
                   wordsVars, watchVars, waitVars, raceProcs>>

-----------------------------------------------------------------------------
(* Specifications: one per component, the other components standing still. *)

SimInit ==
    /\ simA \in SimTextsA
    /\ simB \in SimTextsB
    /\ simOut = NoSimCall
    /\ annFile = Absent /\ annLast = NoAnnCall /\ annCalls = 0
    /\ claudeMd = Absent /\ mdLast = NoMdCall /\ mdCalls = 0
    /\ settingsFile = Absent /\ stLast = NoStCall /\ stCalls = 0
    /\ allReports = <<>> /\ teamFrictions = <<>> /\ frictionsDone = 0
    /\ teamRules = <<>> /\ rulesDone = 0
    /\ swText = "" /\ swOut = NoWordsCall
    /\ clock = 0 /\ timers = {} /\ debounceTimer = NullTimer /\ watcherOpen = FALSE
    /\ lastEventAt = -1 /\ runsAfterEvent = 0 /\ lastRunGap = -1
    /\ wait = NoWait /\ reportExists = FALSE /\ waitNow = 0
    /\ raceProcs = <<>> /\ skillFiles = NoFiles /\ applyLast = NoApplyCall

SimNext == CallIsSimilar \/ CallIsFrictionMatch

SpecSim == SimInit /\ [][SimNext]_vars

AnnInit ==
    /\ simA = "" /\ simB = "" /\ simOut = NoSimCall
    /\ annFile \in AnnInitFiles
    /\ annLast = NoAnnCall /\ annCalls = 0
    /\ claudeMd = Absent /\ mdLast = NoMdCall /\ mdCalls = 0
    /\ settingsFile = Absent /\ stLast = NoStCall /\ stCalls = 0
    /\ allReports = <<>> /\ teamFrictions = <<>> /\ frictionsDone = 0
    /\ teamRules = <<>> /\ rulesDone = 0
    /\ swText = "" /\ swOut = NoWordsCall
    /\ clock = 0 /\ timers = {} /\ debounceTimer = NullTimer /\ watcherOpen = FALSE
    /\ lastEventAt = -1 /\ runsAfterEvent = 0 /\ lastRunGap = -1
    /\ wait = NoWait /\ reportExists = FALSE /\ waitNow = 0
    /\ raceProcs = <<>> /\ skillFiles = NoFiles /\ applyLast = NoApplyCall

SetAnnotations ==
    \E title \in AnnTitles, status \in AnnStatuses, note \in AnnNotes,
       writable \in WriteOutcomes :
        SetAnnotation(title, status, note, writable)

AnnNext == SetAnnotations \/ ClearAfterSets

SpecAnn == AnnInit /\ [][AnnNext]_vars

AnnOpsInit ==
    /\ simA = "" /\ simB = "" /\ simOut = NoSimCall
    /\ annFile \in AnnOpsFiles
    /\ annLast = NoAnnCall /\ annCalls = 0
    /\ claudeMd = Absent /\ mdLast = NoMdCall /\ mdCalls = 0
    /\ settingsFile = Absent /\ stLast = NoStCall /\ stCalls = 0
    /\ allReports = <<>> /\ teamFrictions = <<>> /\ frictionsDone = 0
    /\ teamRules = <<>> /\ rulesDone = 0
    /\ swText = "" /\ swOut = NoWordsCall
    /\ clock = 0 /\ timers = {} /\ debounceTimer = NullTimer /\ watcherOpen = FALSE
    /\ lastEventAt = -1 /\ runsAfterEvent = 0 /\ lastRunGap = -1
    /\ wait = NoWait /\ reportExists = FALSE /\ waitNow = 0
    /\ raceProcs = <<>> /\ skillFiles = NoFiles /\ applyLast = NoApplyCall

ClearAnnotations ==
    \E title \in AnnQueryTitles \cup {Undefined}, writable \in WriteOutcomes :
        ClearAnnotation(title, writable)

FindAnnotations == \E frictionTitle \in AnnQueryTitles : FindAnnotation(frictionTitle)

FilterFrictions == \E frictions \in AnnFrictionLists : FilterAnnotatedFrictions(frictions)

AnnOpsNext == ClearAnnotations \/ FindAnnotations \/ FilterFrictions

SpecAnnOps == AnnOpsInit /\ [][AnnOpsNext]_vars

MdInit ==
    /\ simA = "" /\ simB = "" /\ simOut = NoSimCall
    /\ annFile = Absent /\ annLast = NoAnnCall /\ annCalls = 0
    /\ claudeMd \in MdInitFiles
    /\ mdLast = NoMdCall
    /\ mdCalls = 0
    /\ settingsFile = Absent /\ stLast = NoStCall /\ stCalls = 0
    /\ allReports = <<>> /\ teamFrictions = <<>> /\ frictionsDone = 0
    /\ teamRules = <<>> /\ rulesDone = 0
    /\ swText = "" /\ swOut = NoWordsCall
    /\ clock = 0 /\ timers = {} /\ debounceTimer = NullTimer /\ watcherOpen = FALSE
    /\ lastEventAt = -1 /\ runsAfterEvent = 0 /\ lastRunGap = -1
    /\ wait = NoWait /\ reportExists = FALSE /\ waitNow = 0
    /\ raceProcs = <<>> /\ skillFiles = NoFiles /\ applyLast = NoApplyCall

MdNext ==
    \E claudeMdAdditions \in MdAdditions, outcome \in SafeWriteOutcomes :
        MergeClaudeMd(claudeMdAdditions, outcome)

SpecMd == MdInit /\ [][MdNext]_vars

StInit ==
    /\ simA = "" /\ simB = "" /\ simOut = NoSimCall
    /\ annFile = Absent /\ annLast = NoAnnCall /\ annCalls = 0
    /\ claudeMd = Absent /\ mdLast = NoMdCall /\ mdCalls = 0
    /\ settingsFile \in StInitFiles
    /\ stLast = NoStCall
    /\ stCalls = 0
    /\ allReports = <<>> /\ teamFrictions = <<>> /\ frictionsDone = 0
    /\ teamRules = <<>> /\ rulesDone = 0
    /\ swText = "" /\ swOut = NoWordsCall
    /\ clock = 0 /\ timers = {} /\ debounceTimer = NullTimer /\ watcherOpen = FALSE
    /\ lastEventAt = -1 /\ runsAfterEvent = 0 /\ lastRunGap = -1
    /\ wait = NoWait /\ reportExists = FALSE /\ waitNow = 0
    /\ raceProcs = <<>> /\ skillFiles = NoFiles /\ applyLast = NoApplyCall

StNext ==
    \E fragment \in StFragments, outcome \in SafeWriteOutcomes :
        MergeSettings(fragment, outcome)

SpecSt == StInit /\ [][StNext]_vars

TeamInit ==
    /\ simA = "" /\ simB = "" /\ simOut = NoSimCall
    /\ annFile = Absent /\ annLast = NoAnnCall /\ annCalls = 0
    /\ claudeMd = Absent /\ mdLast = NoMdCall /\ mdCalls = 0
    /\ settingsFile = Absent /\ stLast = NoStCall /\ stCalls = 0
    /\ allReports \in SeqsUpTo(TeamReports, MaxReports)
    /\ teamFrictions = <<>> /\ frictionsDone = 0
    /\ teamRules = <<>> /\ rulesDone = 0
    /\ swText = "" /\ swOut = NoWordsCall
    /\ clock = 0 /\ timers = {} /\ debounceTimer = NullTimer /\ watcherOpen = FALSE
    /\ lastEventAt = -1 /\ runsAfterEvent = 0 /\ lastRunGap = -1
    /\ wait = NoWait /\ reportExists = FALSE /\ waitNow = 0
    /\ raceProcs = <<>> /\ skillFiles = NoFiles /\ applyLast = NoApplyCall

TeamNext == MergeFrictionsStep \/ MergeRulesStep

SpecTeam == TeamInit /\ [][TeamNext]_vars

WordsInit ==
    /\ simA = "" /\ simB = "" /\ simOut = NoSimCall
    /\ annFile = Absent /\ annLast = NoAnnCall /\ annCalls = 0
    /\ claudeMd = Absent /\ mdLast = NoMdCall /\ mdCalls = 0
    /\ settingsFile = Absent /\ stLast = NoStCall /\ stCalls = 0
    /\ allReports = <<>> /\ teamFrictions = <<>> /\ frictionsDone = 0
    /\ teamRules = <<>> /\ rulesDone = 0
    /\ swText \in RawTexts
    /\ swOut = NoWordsCall
    /\ clock = 0 /\ timers = {} /\ debounceTimer = NullTimer /\ watcherOpen = FALSE
    /\ lastEventAt = -1 /\ runsAfterEvent = 0 /\ lastRunGap = -1
    /\ wait = NoWait /\ reportExists = FALSE /\ waitNow = 0
    /\ raceProcs = <<>> /\ skillFiles = NoFiles /\ applyLast = NoApplyCall

WordsNext == CallSignificantWords

SpecWords == WordsInit /\ [][WordsNext]_vars

\* The state when watchReport returns its handle.
WatchInit ==
    /\ simA = "" /\ simB = "" /\ simOut = NoSimCall
    /\ annFile = Absent /\ annLast = NoAnnCall /\ annCalls = 0
    /\ claudeMd = Absent /\ mdLast = NoMdCall /\ mdCalls = 0
    /\ settingsFile = Absent /\ stLast = NoStCall /\ stCalls = 0
    /\ allReports = <<>> /\ teamFrictions = <<>> /\ frictionsDone = 0
    /\ teamRules = <<>> /\ rulesDone = 0
    /\ swText = "" /\ swOut = NoWordsCall
    /\ clock = 0 /\ timers = {} /\ debounceTimer = NullTimer /\ watcherOpen = TRUE
    /\ lastEventAt = -1 /\ runsAfterEvent = 0 /\ lastRunGap = -1
    /\ wait = NoWait /\ reportExists = FALSE /\ waitNow = 0
    /\ raceProcs = <<>> /\ skillFiles = NoFiles /\ applyLast = NoApplyCall

WatchNext == FileChange \/ DebounceFires \/ Stop \/ Tick

\* The event loop runs a timeout that is due, and time passes.
SpecWatch ==
    WatchInit /\ [][WatchNext]_vars /\ WF_vars(DebounceFires) /\ WF_vars(Tick)

\* Two processes about to call setAnnotation on the same store file.
AnnRaceInit ==
    /\ simA = "" /\ simB = "" /\ simOut = NoSimCall
    /\ annFile \in RaceInitFiles /\ annLast = NoAnnCall /\ annCalls = 0
    /\ claudeMd = Absent /\ mdLast = NoMdCall /\ mdCalls = 0
    /\ settingsFile = Absent /\ stLast = NoStCall /\ stCalls = 0
    /\ allReports = <<>> /\ teamFrictions = <<>> /\ frictionsDone = 0
    /\ teamRules = <<>> /\ rulesDone = 0
    /\ swText = "" /\ swOut = NoWordsCall
    /\ clock = 0 /\ timers = {} /\ debounceTimer = NullTimer /\ watcherOpen = FALSE
    /\ lastEventAt = -1 /\ runsAfterEvent = 0 /\ lastRunGap = -1
    /\ wait = NoWait /\ reportExists = FALSE /\ waitNow = 0
    /\ raceProcs \in {<<RaceStart(t1), RaceStart(t2)>> : t1 \in AnnTitles, t2 \in AnnTitles}
    /\ skillFiles = NoFiles /\ applyLast = NoApplyCall

RaceLoads == \E me \in RaceProcs : RaceLoad(me)

RaceSaves == \E me \in RaceProcs : RaceSave(me)

AnnRaceNext == RaceLoads \/ RaceSaves

SpecAnnRace == AnnRaceInit /\ [][AnnRaceNext]_vars

\* A project before applyToProject is called.
ApplyInit ==
    /\ simA = "" /\ simB = "" /\ simOut = NoSimCall
    /\ annFile = Absent /\ annLast = NoAnnCall /\ annCalls = 0
    /\ claudeMd \in ApplyInitMd /\ mdLast = NoMdCall /\ mdCalls = 0
    /\ settingsFile \in ApplyInitSettings /\ stLast = NoStCall /\ stCalls = 0
    /\ allReports = <<>> /\ teamFrictions = <<>> /\ frictionsDone = 0
    /\ teamRules = <<>> /\ rulesDone = 0
    /\ swText = "" /\ swOut = NoWordsCall
    /\ clock = 0 /\ timers = {} /\ debounceTimer = NullTimer /\ watcherOpen = FALSE
    /\ lastEventAt = -1 /\ runsAfterEvent = 0 /\ lastRunGap = -1
    /\ wait = NoWait /\ reportExists = FALSE /\ waitNow = 0
    /\ raceProcs = <<>>
    /\ skillFiles \in ApplyInitSkills /\ applyLast = NoApplyCall

ApplyCalls ==
    \E output \in ApplyOutputs, mdOutcome \in SafeWriteOutcomes,
       stOutcome \in SafeWriteOutcomes, failAt \in 0..2,
       skOutcome \in {"openFailed", "writeFailed"} :
        /\ failAt <= Len(output.skills)
        /\ failAt = 0 => skOutcome = "openFailed"
        /\ ApplyToProject(output, mdOutcome, stOutcome, failAt, skOutcome)

ApplyNext == ApplyCalls

SpecApply == ApplyInit /\ [][ApplyNext]_vars

\* The state when waitForReport has returned its promise.
WaitInit ==
    /\ simA = "" /\ simB = "" /\ simOut = NoSimCall
    /\ annFile = Absent /\ annLast = NoAnnCall /\ annCalls = 0
    /\ claudeMd = Absent /\ mdLast = NoMdCall /\ mdCalls = 0
    /\ settingsFile = Absent /\ stLast = NoStCall /\ stCalls = 0
    /\ allReports = <<>> /\ teamFrictions = <<>> /\ frictionsDone = 0
    /\ teamRules = <<>> /\ rulesDone = 0
    /\ swText = "" /\ swOut = NoWordsCall
    /\ clock = 0 /\ timers = {} /\ debounceTimer = NullTimer /\ watcherOpen = FALSE
    /\ lastEventAt = -1 /\ runsAfterEvent = 0 /\ lastRunGap = -1
    /\ reportExists \in BOOLEAN
    /\ wait \in {waitForReport(reportExists, timeoutMs, watchable) :
                     timeoutMs \in WaitTimeouts, watchable \in BOOLEAN}
    /\ waitNow = 0
    /\ raceProcs = <<>> /\ skillFiles = NoFiles /\ applyLast = NoApplyCall

WatchEvents == \E matches \in BOOLEAN : WatchEvent(matches)

WaitNext ==
    ReportAppears \/ ReportDisappears \/ PollTick \/ WatchEvents \/ TimeoutFires
        \/ WaitTick

\* The event loop runs a timer that is due, and time passes.
SpecWait ==
    WaitInit /\ [][WaitNext]_vars
        /\ WF_vars(PollTick) /\ WF_vars(TimeoutFires) /\ WF_vars(WaitTick)

-----------------------------------------------------------------------------
(* Claims about the similarity predicate (SpecSim).                        *)

\* The number of positions of wordsA whose token occurs somewhere in wordsB.
OverlapPositions(wordsA, wordsB) ==
    Cardinality({i \in 1..Len(wordsA) : \E j \in 1..Len(wordsB) : wordsB[j] = wordsA[i]})

\* C1: isSimilar(A,B) = isSimilar(B,A), and likewise isFrictionMatch, for every
\* pair of texts, also when a significant word is repeated.
C1_Symmetric == simOut.fn # "none" => simOut.ab = simOut.ba

\* C5: isSimilar(A,B) is true exactly when both significant-word sequences are
\* non-empty and the overlap (positions of wordsA whose token occurs in wordsB)
\* is at least 4/5 of |wordsA| or at least 4/5 of |wordsB|.
C5_ThresholdRule ==
    simOut.fn = "isSimilar" =>
        LET wordsA == significantWords(simA)
            wordsB == significantWords(simB)
            overlap == OverlapPositions(wordsA, wordsB)
        IN simOut.ab <=> /\ Len(wordsA) > 0
                         /\ Len(wordsB) > 0
                         /\ \/ 5 * overlap >= 4 * Len(wordsA)
                            \/ 5 * overlap >= 4 * Len(wordsB)

\* C5's case: the ratio is exactly 4/5 on the first side, below it on the second,
\* and the call answered true.
C5_Witness ==
    /\ simOut.fn = "isSimilar"
    /\ simOut.ab
    /\ LET wordsA == significantWords(simA)
           wordsB == significantWords(simB)
           overlap == OverlapPositions(wordsA, wordsB)
       IN /\ 5 * overlap = 4 * Len(wordsA)
          /\ 5 * overlap < 4 * Len(wordsB)

-----------------------------------------------------------------------------
(* Claims about the annotation store (SpecAnn).                            *)

\* C2: after any sequence of setAnnotation calls on a store that started empty,
\* isFrictionMatch is false for every pair of distinct stored annotations.
C2_NoSimilarPair ==
    LET annotations == loadAnnotations(annFile)
    IN \A i, j \in 1..Len(annotations) :
           i # j => ~isFrictionMatch(annotations[i].frictionTitle,
                                     annotations[j].frictionTitle)

-----------------------------------------------------------------------------
(* Claims about mergeClaudeMd (SpecMd).                                    *)

MdCalled == mdLast.op = "mergeClaudeMd"

\* The text a file holds, the empty text for a file that does not exist.
TextOf(file) == IF file.exists THEN file.text ELSE ""

IsPrefix(p, q) == Len(p) <= Len(q) /\ SubSeq(q, 1, Len(p)) = p

\* The candidate rules of the last call and the paragraphs it compared them with.
MdCandidates == extractRules(mdLast.input)
MdExisting == paragraphsOf(TextOf(mdLast.before))

\* The last call skipped this candidate: it did not queue it for addition.
MdSkipped(rule) == ~includes(mdLast.rulesToAdd, rule)

\* C3: a second mergeClaudeMd run with the same additions, after a first run
\* that returned, reports status unchanged and rulesAdded 0 and leaves the
\* document as the first run left it.
C3_SecondRunUnchanged ==
    (/\ MdCalled
     /\ mdLast.prevStatus \in {"created", "updated", "unchanged"}
     /\ mdLast.prevInput = mdLast.input)
    => /\ mdLast.status = "unchanged"
       /\ mdLast.rulesAdded = 0
       /\ claudeMd = mdLast.before

\* C3's case: the first run wrote rules, the second run with the same additions
\* skipped them all.
C3_Witness ==
    /\ MdCalled
    /\ mdLast.prevStatus \in {"created", "updated"}
    /\ mdLast.prevInput = mdLast.input
    /\ mdLast.status = "unchanged"
    /\ mdLast.rulesSkipped >= 2

\* C6 as claimed: a candidate is skipped exactly when isSimilar(candidate, p)
\* holds for some existing paragraph p.
C6_SkippedIffSimilar ==
    (MdCalled /\ mdLast.status # "threw") =>
        \A i \in 1..Len(MdCandidates) :
            MdSkipped(MdCandidates[i])
            <=> \E k \in 1..Len(MdExisting) : isSimilar(MdCandidates[i], MdExisting[k])

\* At least 4/5 of the rule's significant-word positions hold a word of one
\* existing paragraph, or the rule has no significant word.
RuleCovered(rule, existingParagraphs) ==
    LET ruleWords == significantWords(rule)
    IN \/ Len(ruleWords) = 0
       \/ \E k \in 1..Len(existingParagraphs) :
              5 * OverlapPositions(ruleWords, significantWords(existingParagraphs[k]))
                  >= 4 * Len(ruleWords)

\* C6 amended: a candidate is skipped exactly when it has no significant word
\* or at least 0.8 of its own significant-word positions hold a word of one
\* existing paragraph (the rule's side only); otherwise it is added, and the
\* counts returned say so.
C6_SkippedIffRuleCovered ==
    MdCalled =>
        LET covered == {i \in 1..Len(MdCandidates) : RuleCovered(MdCandidates[i], MdExisting)}
        IN /\ \A i \in 1..Len(MdCandidates) :
                  MdSkipped(MdCandidates[i]) <=> i \in covered
           /\ mdLast.status # "threw" =>
                  /\ mdLast.rulesSkipped = Cardinality(covered)
                  /\ mdLast.rulesAdded = Len(MdCandidates) - Cardinality(covered)

\* C6's case: one candidate skipped, and one added although an existing
\* paragraph is similar to it from the paragraph's side.
C6_Witness ==
    /\ MdCalled
    /\ mdLast.rulesSkipped > 0
    /\ \E i \in 1..Len(mdLast.rulesToAdd) :
           \E k \in 1..Len(MdExisting) : isSimilar(mdLast.rulesToAdd[i], MdExisting[k])

\* C10: the paragraphs of the document before a mergeClaudeMd call that
\* returns are a prefix, same order and content, of its paragraphs after it.
C10_AppendOnly ==
    (MdCalled /\ mdLast.status # "threw") =>
        IsPrefix(paragraphsOf(TextOf(mdLast.before)), paragraphsOf(TextOf(claudeMd)))

\* C10's case: a document of several paragraphs received new ones.
C10_Witness ==
    /\ MdCalled
    /\ mdLast.status = "updated"
    /\ Len(paragraphsOf(TextOf(mdLast.before))) >= 2
    /\ Len(paragraphsOf(TextOf(claudeMd))) > Len(paragraphsOf(TextOf(mdLast.before)))

\* C18 as claimed: when the write fails inside mergeClaudeMd the call raises
\* and returns no status, and the target file keeps its previous content.
C18_FailedWriteKeepsFile ==
    (MdCalled /\ mdLast.status = "threw") => claudeMd = mdLast.before

\* The places in a text where the section header starts.
HeaderPlaces(text) ==
    {i \in 1..(Len(text) - Len(SECTION_HEADER) + 1) :
        SubSeq(text, i, i + Len(SECTION_HEADER) - 1) = SECTION_HEADER}

\* C24: a mergeClaudeMd call that returns, on a document in which the section
\* header occurs at most once, leaves a document in which it occurs at most
\* once; so the header never occurs twice over a sequence of merges.
C24_HeaderAtMostOnce ==
    (/\ MdCalled
     /\ mdLast.status # "threw"
     /\ Cardinality(HeaderPlaces(TextOf(mdLast.before))) <= 1)
    => Cardinality(HeaderPlaces(TextOf(claudeMd))) <= 1

\* C29: a candidate rule with no significant word is counted as skipped and is
\* never appended, whatever the document holds and also when there is none.
C29_EmptyRuleSkipped ==
    MdCalled =>
        LET empty == {i \in 1..Len(MdCandidates) :
                         Len(significantWords(MdCandidates[i])) = 0}
        IN /\ \A i \in empty : MdSkipped(MdCandidates[i])
           /\ mdLast.status # "threw" =>
                  /\ mdLast.rulesSkipped >= Cardinality(empty)
                  /\ \A i \in empty :
                         includes(paragraphsOf(TextOf(claudeMd)), MdCandidates[i])
                             => includes(MdExisting, MdCandidates[i])

\* C29's case: no CLAUDE.md, a call with a rule of significant words and a
\* rule of none; the file is created with the first and without the second.
C29_Witness ==
    /\ MdCalled
    /\ ~mdLast.before.exists
    /\ mdLast.status = "created"
    /\ mdLast.rulesSkipped = 1
    /\ includes(MdCandidates, "The")
    /\ ~includes(paragraphsOf(TextOf(claudeMd)), "The")

-----------------------------------------------------------------------------
(* Claims about mergeSettings (SpecSt).                                    *)

StCalled == stLast.op = "mergeSettings"

\* The call returned a status (it did not raise).
StReturned(status) == status \in {"created", "updated", "unchanged"}

\* The JSON object a settings file holds, the empty object when there is none
\* to read.
ValueOf(file) == IF file.exists /\ file.json THEN file.value ELSE EmptySettings

\* The hooks[event] arrays of a file, as a map event -> entries.
HookArrays(file) ==
    LET hooks == ValueOf(file).hooks
        events == IF hooks.kind = "object"
                  THEN {e \in DOMAIN hooks.map : hooks.map[e].kind = "array"}
                  ELSE {}
    IN [e \in events |-> hooks.map[e].items]

\* The servers of a file, as a map name -> config.
Servers(file) ==
    LET mcp == ValueOf(file).mcpServers
    IN IF mcp.kind = "object" THEN mcp.map ELSE EmptyMap

\* The identity key of a hook entry: its command, or its prompt when it has no
\* command.
IdentityKey(entry) ==
    CASE entry.command # Undefined -> entry.command
      [] entry.prompt # Undefined -> entry.prompt
      [] OTHER -> ""

NoTwoWithSameKey(entries) ==
    \A i, j \in 1..Len(entries) : i # j => IdentityKey(entries[i]) # IdentityKey(entries[j])

\* C4 as claimed: a second mergeSettings run with the same fragment, after a
\* first run that returned, returns unchanged (when it returns) and leaves the
\* document as the first run left it, whatever JSON object the document held.
C4_SecondRunUnchanged ==
    (/\ StCalled
     /\ StReturned(stLast.prevStatus)
     /\ StReturned(stLast.status)
     /\ stLast.prevInput = stLast.input)
    => /\ stLast.status = "unchanged"
       /\ settingsFile = stLast.before

\* What the last call's fragment asks for.
StNewHooks ==
    LET hooks == stLast.input.settingsJson.hooks
    IN IF hooks.kind = "object" THEN hooks.map ELSE EmptyMap
StNewArrayEvents == {e \in DOMAIN StNewHooks : StNewHooks[e].kind = "array"}
StNewServerNames ==
    {stLast.input.mcpRecommendations[k].serverName :
        k \in 1..Len(stLast.input.mcpRecommendations)}
StFragmentEmpty ==
    stLast.input.settingsJson.hooks.kind = "missing" /\ stLast.input.mcpRecommendations = <<>>

\* The merge of the last call finds something to add to what the file held: a
\* hook entry whose identity key is not under its event, an event whose value
\* is not an array, or a server name that is not present.
StFindsNew ==
    LET before == ValueOf(stLast.before)
        arrays == HookArrays(stLast.before)
    IN \/ \E e \in StNewArrayEvents :
              \/ /\ before.hooks.kind = "object"
                 /\ e \in DOMAIN before.hooks.map
                 /\ before.hooks.map[e].kind # "array"
              \/ \E k \in 1..Len(StNewHooks[e].items) :
                     \A j \in 1..Len(IF e \in DOMAIN arrays THEN arrays[e] ELSE <<>>) :
                         IdentityKey(arrays[e][j]) # IdentityKey(StNewHooks[e].items[k])
       \/ StNewServerNames \ DOMAIN Servers(stLast.before) # {}

\* The existing hooks or mcpServers value is a primitive and the fragment has
\* something to merge into it.
StHitsPrimitive ==
    LET before == ValueOf(stLast.before)
    IN \/ before.hooks.kind = "prim" /\ StNewArrayEvents # {}
       \/ before.mcpServers.kind = "prim" /\ StNewServerNames # {}

\* C7 as claimed: created whenever no file existed before the call, updated
\* when a file existed and a hook entry or server was actually added to it,
\* unchanged otherwise, for every fragment including the empty one.
C7_StatusAsClaimed ==
    (StCalled /\ StReturned(stLast.status)) =>
        stLast.status =
            IF ~stLast.before.exists THEN "created"
            ELSE IF \/ \E e \in DOMAIN HookArrays(settingsFile) :
                          e \notin DOMAIN HookArrays(stLast.before)
                          \/ Len(HookArrays(settingsFile)[e]) > Len(HookArrays(stLast.before)[e])
                    \/ DOMAIN Servers(settingsFile) \ DOMAIN Servers(stLast.before) # {}
                 THEN "updated"
                 ELSE "unchanged"

\* C7 amended: an empty fragment (no hooks key, no server) gives unchanged and
\* writes nothing, also when no file existed; for any other fragment a call
\* that returns gives created when no file existed, updated when a file
\* existed and the merge found something to add, and unchanged otherwise; the
\* call raises instead when the existing hooks or mcpServers value is a
\* primitive the fragment merges into.
C7_StatusOfMerge ==
    StCalled =>
        /\ StFragmentEmpty => stLast.status = "unchanged" /\ settingsFile = stLast.before
        /\ stLast.status = "typeError" <=> ~StFragmentEmpty /\ StHitsPrimitive
        /\ (~StFragmentEmpty /\ StReturned(stLast.status)) =>
               stLast.status = IF ~stLast.before.exists THEN "created"
                               ELSE IF StFindsNew THEN "updated"
                               ELSE "unchanged"

\* C7's case: no file existed and the fragment was empty: unchanged, no file.
C7_Witness ==
    /\ StCalled
    /\ StFragmentEmpty
    /\ ~stLast.before.exists
    /\ stLast.status = "unchanged"
    /\ ~settingsFile.exists

\* C8: a server name present under mcpServers before a call that does not
\* fail to write keeps its config, whatever the fragment proposes for it; a
\* fragment that proposes only such names gives unchanged.
C8_ExistingServerKept ==
    (StCalled /\ stLast.status # "threw") =>
        /\ \A name \in DOMAIN Servers(stLast.before) :
               /\ name \in DOMAIN Servers(settingsFile)
               /\ Servers(settingsFile)[name] = Servers(stLast.before)[name]
        /\ (/\ stLast.input.settingsJson.hooks.kind = "missing"
            /\ StNewServerNames # {}
            /\ StNewServerNames \subseteq DOMAIN Servers(stLast.before))
           => stLast.status = "unchanged"

\* C8's case: the fragment proposed another config for a server that was
\* present, as its only candidate.
C8_Witness ==
    /\ StCalled
    /\ stLast.input.settingsJson.hooks.kind = "missing"
    /\ \E k \in 1..Len(stLast.input.mcpRecommendations) :
           LET rec == stLast.input.mcpRecommendations[k]
           IN /\ rec.serverName \in DOMAIN Servers(stLast.before)
              /\ rec.configBlock # Servers(stLast.before)[rec.serverName]
              /\ Servers(settingsFile)[rec.serverName] = Servers(stLast.before)[rec.serverName]
    /\ stLast.status = "unchanged"

\* The file the calls started from.
StOrigin == IF StCalled THEN stLast.origin ELSE settingsFile

NoDuplicateHooks(file) ==
    \A e \in DOMAIN HookArrays(file) : NoTwoWithSameKey(HookArrays(file)[e])

\* Every hooks[event] value is an array without two entries of one identity key.
HooksWellFormed(file) ==
    /\ NoDuplicateHooks(file)
    /\ ValueOf(file).hooks.kind = "object" =>
           \A e \in DOMAIN ValueOf(file).hooks.map : ValueOf(file).hooks.map[e].kind = "array"

\* C9: starting from no settings document, or from one whose hooks[event]
\* values are arrays without two entries of one identity key, no hooks[event]
\* array ever holds two entries of one identity key.
C9_NoDuplicateHooks == HooksWellFormed(StOrigin) => NoDuplicateHooks(settingsFile)

\* C9's case: one fragment listed the same identity key twice under an event
\* and the file holds it once.
C9_Witness ==
    /\ StCalled
    /\ HooksWellFormed(StOrigin)
    /\ stLast.status \in {"created", "updated"}
    /\ \E e \in StNewArrayEvents :
           /\ ~NoTwoWithSameKey(StNewHooks[e].items)
           /\ e \in DOMAIN HookArrays(settingsFile)
           /\ \E k \in 1..Len(HookArrays(settingsFile)[e]) :
                  IdentityKey(HookArrays(settingsFile)[e][k]) = IdentityKey(StNewHooks[e].items[1])

\* C26: a mergeSettings call that returns leaves the top-level key that is
\* neither hooks nor mcpServers with its value, and every hooks[event] array
\* that existed is a prefix of the array after the call: no entry removed, none
\* moved.
C26_OtherKeysAndEntriesKept ==
    (StCalled /\ StReturned(stLast.status)) =>
        /\ (stLast.before.exists /\ stLast.before.json) =>
               ValueOf(settingsFile).permissions = ValueOf(stLast.before).permissions
        /\ \A e \in DOMAIN HookArrays(stLast.before) :
               /\ e \in DOMAIN HookArrays(settingsFile)
               /\ IsPrefix(HookArrays(stLast.before)[e], HookArrays(settingsFile)[e])

\* C26's case: a file with a permissions key and a hooks[event] array received
\* a new entry under that event.
C26_Witness ==
    /\ StCalled
    /\ stLast.status = "updated"
    /\ ValueOf(stLast.before).permissions # JMissing
    /\ \E e \in DOMAIN HookArrays(stLast.before) :
           /\ Len(HookArrays(stLast.before)[e]) >= 1
           /\ Len(HookArrays(settingsFile)[e]) > Len(HookArrays(stLast.before)[e])

-----------------------------------------------------------------------------
(* Claims about mergeFrictions and mergeRules (SpecTeam).                  *)

\* The rule records folded so far.
RulesFolded == SubSeq(ruleRecords, 1, rulesDone)
FrictionsFolded == SubSeq(frictionRecords, 1, frictionsDone)

\* The reports that hold a folded rule equal or similar to the entry's code.
RuleContributors(entry) ==
    {RulesFolded[k].memberIdx : k \in
        {k \in 1..Len(RulesFolded) :
            \/ RulesFolded[k].record.code = entry.code
            \/ isSimilar(entry.code, RulesFolded[k].record.code)}}

\* C11 as claimed: the memberCount of a merged rule is at most the number of
\* different reports that hold a rule similar to it, and a rule is High only
\* when at least 2 different reports hold one.
C11_CountsDistinctReports ==
    \A i \in 1..Len(teamRules) :
        /\ teamRules[i].memberCount <= Cardinality(RuleContributors(teamRules[i]))
        /\ teamRules[i].priority = "High" =>
               Cardinality(RuleContributors(teamRules[i])) >= 2

\* C12: a fold step never changes the title/description (code/why) of an entry
\* that exists, never removes or moves an entry, and a new entry carries the
\* text of the record that is being folded.
C12_CanonicalTextKept ==
    [][/\ Len(teamFrictions') >= Len(teamFrictions)
       /\ \A i \in 1..Len(teamFrictions) :
              /\ teamFrictions'[i].title = teamFrictions[i].title
              /\ teamFrictions'[i].description = teamFrictions[i].description
       /\ Len(teamFrictions') > Len(teamFrictions) =>
              /\ Len(teamFrictions') = Len(teamFrictions) + 1
              /\ teamFrictions'[Len(teamFrictions')].title =
                     frictionRecords[frictionsDone + 1].record.title
              /\ teamFrictions'[Len(teamFrictions')].description =
                     frictionRecords[frictionsDone + 1].record.description
       /\ Len(teamRules') >= Len(teamRules)
       /\ \A i \in 1..Len(teamRules) :
              /\ teamRules'[i].code = teamRules[i].code
              /\ teamRules'[i].why = teamRules[i].why
       /\ Len(teamRules') > Len(teamRules) =>
              /\ Len(teamRules') = Len(teamRules) + 1
              /\ teamRules'[Len(teamRules')].code = ruleRecords[rulesDone + 1].record.code
              /\ teamRules'[Len(teamRules')].why = ruleRecords[rulesDone + 1].record.why
      ]_vars

\* C12's case: a later record with another description was folded into an
\* entry by a second report, and a later rule with another why into a rule.
C12_Witness ==
    /\ \E i \in 1..Len(teamFrictions) :
           /\ teamFrictions[i].memberCount >= 2
           /\ \E k \in 1..Len(FrictionsFolded) :
                  /\ isSimilar(teamFrictions[i].title, FrictionsFolded[k].record.title)
                  /\ FrictionsFolded[k].record.description # teamFrictions[i].description
    /\ \E i \in 1..Len(teamRules) :
           /\ teamRules[i].memberCount >= 2
           /\ \E k \in 1..Len(RulesFolded) :
                  /\ isSimilar(teamRules[i].code, RulesFolded[k].record.code)
                  /\ RulesFolded[k].record.why # teamRules[i].why

NoStringTwice(examples) ==
    \A i \in 1..Len(examples) : \A j \in 1..Len(examples) :
        examples[i] = examples[j] => i = j

\* C25 as claimed: every example of every folded record is in the examples of
\* the aggregated friction it went to (the entry with its title or similar to
\* it), and no examples list holds a string twice.
C25_ExamplesUnion ==
    /\ \A k \in 1..Len(FrictionsFolded) :
           \E i \in 1..Len(teamFrictions) :
               /\ \/ teamFrictions[i].title = FrictionsFolded[k].record.title
                  \/ isSimilar(teamFrictions[i].title, FrictionsFolded[k].record.title)
               /\ \A x \in 1..Len(FrictionsFolded[k].record.examples) :
                      includes(teamFrictions[i].examples,
                               FrictionsFolded[k].record.examples[x])
    /\ \A i \in 1..Len(teamFrictions) : NoStringTwice(teamFrictions[i].examples)

\* C27: in the lists mergeFrictions and mergeRules build, no entry's identity
\* text is similar to that of an entry after it: isSimilar(text_i, text_j) is
\* false for i < j.
C27_NoSimilarPair ==
    /\ \A i \in 1..Len(teamFrictions) : \A j \in 1..Len(teamFrictions) :
           i < j => ~isSimilar(teamFrictions[i].title, teamFrictions[j].title)
    /\ \A i \in 1..Len(teamRules) : \A j \in 1..Len(teamRules) :
           i < j => ~isSimilar(teamRules[i].code, teamRules[j].code)

\* C27's case: both merges are done, each list has several entries, and
\* records were folded into entries that existed.
C27_Witness ==
    /\ frictionsDone = Len(frictionRecords)
    /\ rulesDone = Len(ruleRecords)
    /\ Len(teamFrictions) >= 3
    /\ Len(teamRules) >= 3
    /\ frictionsDone > Len(teamFrictions)
    /\ rulesDone > Len(teamRules)

-----------------------------------------------------------------------------
(* Claims about the annotation store (SpecAnn, SpecAnnOps).                *)

\* The store before and after the last call.
AnnBefore == loadAnnotations(annLast.before)
AnnAfter == loadAnnotations(annFile)

\* The stored annotations whose title matches the title of the last call.
AnnMatches ==
    {i \in 1..Len(AnnBefore) : isFrictionMatch(AnnBefore[i].frictionTitle, annLast.title)}

AnnReturned(op) == annLast.op = op /\ ~annLast.threw

\* C13: a setAnnotation call that returns replaces the first stored annotation
\* whose title matches, at its index, by the new annotation, and leaves the
\* length and every other entry as they were; with no match it appends the new
\* annotation and changes nothing else.
C13_ReplaceFirstOrAppend ==
    AnnReturned("setAnnotation") =>
        /\ annLast.returned.frictionTitle = annLast.title
        /\ IF AnnMatches # {}
           THEN LET idx == CHOOSE i \in AnnMatches : \A j \in AnnMatches : i <= j
                IN /\ Len(AnnAfter) = Len(AnnBefore)
                   /\ AnnAfter[idx] = annLast.returned
                   /\ \A i \in 1..Len(AnnBefore) : i # idx => AnnAfter[i] = AnnBefore[i]
           ELSE AnnAfter = Append(AnnBefore, annLast.returned)

\* C13's case: a store of two entries in which the second one matched and was
\* replaced by an annotation with another title and status.
C13_Witness ==
    /\ AnnReturned("setAnnotation")
    /\ Len(AnnBefore) = 2
    /\ AnnMatches = {2}
    /\ AnnAfter[2].frictionTitle # AnnBefore[2].frictionTitle
    /\ AnnAfter[2].status # AnnBefore[2].status
    /\ AnnAfter[1] = AnnBefore[1]

\* The entries of the store before the call that do not match the title, in
\* their order.
RECURSIVE AnnNonMatching(_)
AnnNonMatching(i) ==
    IF i > Len(AnnBefore) THEN <<>>
    ELSE (IF i \in AnnMatches THEN <<>> ELSE <<AnnBefore[i]>>) \o AnnNonMatching(i + 1)

\* C14: clearAnnotation(title) removes exactly the stored annotations whose
\* title matches, keeps the others in their order and returns the number
\* removed; without a title it empties the store and returns its prior size.
C14_ClearExactlyMatches ==
    AnnReturned("clearAnnotation") =>
        IF annLast.title = Undefined
        THEN AnnAfter = <<>> /\ annLast.returned = Len(AnnBefore)
        ELSE /\ AnnAfter = AnnNonMatching(1)
             /\ annLast.returned = Cardinality(AnnMatches)

\* C14's case: a clear by title that removed an entry between two kept ones.
C14_Witness ==
    /\ AnnReturned("clearAnnotation")
    /\ annLast.title # Undefined
    /\ \E i, j, k \in 1..Len(AnnBefore) :
           i < j /\ j < k /\ j \in AnnMatches /\ i \notin AnnMatches /\ k \notin AnnMatches
    /\ annLast.returned >= 1

\* C15 as claimed: on a store that setAnnotation calls built from empty,
\* clearAnnotation(title) removes at most one annotation.
C15_ClearsAtMostOne ==
    (annLast.op = "clearAnnotation" /\ annLast.title # Undefined) => annLast.returned <= 1

\* C16: filterAnnotatedFrictions removes a friction exactly when a stored
\* false-positive annotation matches its title; the kept ones keep their
\* order, skippedCount is the length of skippedTitles, kept plus skipped is the
\* input length, and the store is as it was.
C16_FilterPartitions ==
    annLast.op = "filterAnnotatedFrictions" =>
        LET frictions == annLast.frictions
            result == annLast.returned
            removed(i) ==
                \E k \in 1..Len(AnnBefore) :
                    /\ AnnBefore[k].status = "false-positive"
                    /\ isFrictionMatch(AnnBefore[k].frictionTitle, frictions[i].title)
            keptIdx == {i \in 1..Len(frictions) : ~removed(i)}
            nth(S, n) == CHOOSE i \in S : Cardinality({j \in S : j < i}) = n - 1
        IN /\ Len(result.filteredFrictions) = Cardinality(keptIdx)
           /\ \A n \in 1..Cardinality(keptIdx) :
                  result.filteredFrictions[n] = frictions[nth(keptIdx, n)]
           /\ result.skippedCount = Len(result.skippedTitles)
           /\ Len(result.filteredFrictions) + result.skippedCount = Len(frictions)
           /\ \A n \in 1..Len(result.skippedTitles) :
                  result.skippedTitles[n] = frictions[nth((1..Len(frictions)) \ keptIdx, n)].title
           /\ annFile = annLast.before

\* C16's case: a friction matched only by a useful annotation was kept, one
\* matched by a false-positive annotation was removed.
C16_Witness ==
    /\ annLast.op = "filterAnnotatedFrictions"
    /\ annLast.returned.skippedCount >= 1
    /\ \E n \in 1..Len(annLast.returned.filteredFrictions) :
           \E k \in 1..Len(AnnBefore) :
               /\ AnnBefore[k].status = "useful"
               /\ isFrictionMatch(AnnBefore[k].frictionTitle,
                                  annLast.returned.filteredFrictions[n].title)

\* The file is missing, is not JSON, or carries another version than 1.
AnnUnreadable(file) ==
    \/ ~file.exists
    \/ ~file.json
    \/ file.version # 1

\* C17: a missing file, a file that is not JSON and a file of another version
\* each load as the empty list: findAnnotation returns undefined and
\* filterAnnotatedFrictions keeps every friction.
C17_UnreadableIsEmpty ==
    (annLast.op # "none" /\ AnnUnreadable(annLast.before)) =>
        /\ AnnBefore = <<>>
        /\ annLast.op = "findAnnotation" => annLast.returned = UndefinedValue
        /\ annLast.op = "filterAnnotatedFrictions" =>
               /\ annLast.returned.filteredFrictions = annLast.frictions
               /\ annLast.returned.skippedCount = 0
        /\ annLast.op = "clearAnnotation" => annLast.returned = 0

\* C17's case: a file of version 2 that holds a false-positive annotation was
\* asked to filter frictions and kept the one its annotation matches.
C17_Witness ==
    /\ annLast.op = "filterAnnotatedFrictions"
    /\ annLast.before.exists /\ annLast.before.json /\ annLast.before.version # 1
    /\ \E i \in 1..Len(annLast.frictions), k \in 1..Len(annLast.before.annotations) :
           /\ annLast.before.annotations[k].status = "false-positive"
           /\ isFrictionMatch(annLast.before.annotations[k].frictionTitle,
                              annLast.frictions[i].title)
    /\ annLast.returned.filteredFrictions = annLast.frictions

\* C30: after a setAnnotation call that returns, on a store file that is
\* corrupt or carries a version other than 1, the file holds a version-1 store
\* with exactly the one new annotation; what the file held is discarded.
C30_UnreadableStoreReplaced ==
    (/\ AnnReturned("setAnnotation")
     /\ annLast.before.exists
     /\ AnnUnreadable(annLast.before))
    => /\ annFile = StoreFile(1, <<annLast.returned>>)
       /\ annLast.returned.frictionTitle = annLast.title

\* C30's case: a version-2 file held an annotation for another title, and
\* after the call the file holds the new one alone.
C30_Witness ==
    /\ AnnReturned("setAnnotation")
    /\ annLast.before.exists /\ annLast.before.json /\ annLast.before.version = 2
    /\ Len(annLast.before.annotations) = 1
    /\ ~isFrictionMatch(annLast.before.annotations[1].frictionTitle, annLast.title)
    /\ annFile.version = 1
    /\ annFile.annotations = <<annLast.returned>>

-----------------------------------------------------------------------------
(* Claims about significantWords (SpecWords).                              *)

\* A raw word as a token: lower case, letters and digits only.
AsToken(word) == stripNonAlnum(toLowerCase(word))

\* The raw words of a text: what lies between its runs of white space.
WordsOfText(text) == splitWhitespace(text)

\* C19: every token of significantWords is made of a-z and 0-9 only, has at
\* least 3 characters and is no stop word; the tokens are the raw words of the
\* text, each lower-cased and stripped, in their order and with their
\* repetitions, without the short ones and the stop words; a text without any
\* such word gives the empty sequence.
C19_TokensOfText ==
    swOut.called =>
        LET tokens == swOut.tokens
            words == WordsOfText(swText)
            asTokens == [i \in 1..Len(words) |-> AsToken(words[i])]
        IN /\ \A i \in 1..Len(tokens) :
                  /\ Len(tokens[i]) >= 3
                  /\ tokens[i] \notin stopWords
                  /\ \A k \in 1..Len(tokens[i]) :
                         CharAt(tokens[i], k) \in CharsOf(LowerLetters) \cup CharsOf(Digits)
           /\ tokens = SelectSeq(asTokens, LAMBDA w : Len(w) >= 3 /\ w \notin stopWords)
           /\ (\A i \in 1..Len(asTokens) : Len(asTokens[i]) <= 2 \/ asTokens[i] \in stopWords)
                  => tokens = <<>>

\* C19's case: a text with capitals, punctuation, a short word and a stop word
\* gave a token twice, in the order of the text.
C19_Witness ==
    /\ swOut.called
    /\ Len(swOut.tokens) = 3
    /\ swOut.tokens[1] = "css" /\ swOut.tokens[2] = "x2y" /\ swOut.tokens[3] = "css"
    /\ Len(WordsOfText(swText)) > 3

-----------------------------------------------------------------------------
(* Claims about watchReport (SpecWatch).                                   *)

\* C20: a burst of file-change events, each less than 300 ms after the one
\* before, causes one pipeline invocation and no more, and that not before 300
\* ms have passed since the last event of the burst: no invocation comes less
\* than 300 ms after an event, no event is followed by two invocations, and
\* while the watch is not stopped an event is followed by an invocation.
C20_OneRunPerBurst ==
    /\ [](runsAfterEvent <= 1)
    /\ [](lastRunGap # -1 => lastRunGap >= DEBOUNCE_MS)
    /\ []((runsAfterEvent = 1) => clock - lastEventAt >= DEBOUNCE_MS)
    /\ ((lastEventAt # -1 /\ runsAfterEvent = 0) ~> (runsAfterEvent = 1 \/ ~watcherOpen))

\* C20's case: three events 100 ms apart, then one invocation 300 ms after
\* the third.
C20_Witness ==
    /\ lastEventAt = 200
    /\ clock = 500
    /\ runsAfterEvent = 1
    /\ lastRunGap = DEBOUNCE_MS
    /\ watcherOpen

\* C21: once handle.stop() has returned no timeout is set, and no step
\* invokes the pipeline function or handles a file change.
C21_NothingAfterStop ==
    /\ [](~watcherOpen => timers = {})
    /\ [][~watcherOpen => /\ runsAfterEvent' = runsAfterEvent
                          /\ lastRunGap' = lastRunGap
                          /\ lastEventAt' = lastEventAt
                          /\ ~watcherOpen']_vars

\* C21's case: stop() came while a timeout was pending, and time has passed
\* the moment the timeout was due without an invocation.
C21_Witness ==
    /\ ~watcherOpen
    /\ lastEventAt # -1
    /\ runsAfterEvent = 0
    /\ clock > lastEventAt + DEBOUNCE_MS

-----------------------------------------------------------------------------
(* Claims about waitForReport (SpecWait).                                  *)

WaitSettled == wait.outcome \in {"resolved", "rejected"}

\* C22: waitForReport settles once and only once: resolved at call time, by a
\* poll tick or by a watch event that saw the file, rejected by the timeout and
\* not before it; once settled nothing changes the promise, and the interval,
\* the timeout and the watcher are released; and it does settle.
C22_SettlesOnce ==
    /\ [](wait.settles <= 1)
    /\ [](WaitSettled <=> wait.settles = 1)
    /\ [](wait.outcome = "resolved" => wait.by \in {"call", "poll", "watch"})
    /\ [](wait.outcome = "rejected" => wait.by = "timeout" /\ waitNow >= wait.timeoutMs)
    /\ [](WaitSettled => /\ ~wait.pollTimer.set
                         /\ ~wait.timeoutTimer.set
                         /\ wait.watcher # "open")
    /\ [][/\ WaitSettled => wait' = wait
          /\ (~WaitSettled /\ wait'.outcome = "resolved") => reportExists]_vars
    /\ <>WaitSettled

\* C22's case: the file was not there at the call, a poll tick saw it before
\* the timeout, and time went on past the timeout.
C22_Witness ==
    /\ wait.outcome = "resolved"
    /\ wait.by = "poll"
    /\ wait.watcher = "closed"
    /\ waitNow >= wait.timeoutMs
    /\ wait.timeoutMs > POLL_INTERVAL_MS

-----------------------------------------------------------------------------
(* Claims about two concurrent setAnnotation calls (SpecAnnRace).          *)

RaceAllDone == \A me \in RaceProcs : raceProcs[me].pc = "done"

RaceHas(annotations, annotation) ==
    \E i \in 1..Len(annotations) : annotations[i] = annotation

RaceMine(me) == RaceAnnotation(me, raceProcs[me].title)

RaceDissimilar ==
    /\ ~isFrictionMatch(raceProcs[1].title, raceProcs[2].title)
    /\ ~isFrictionMatch(raceProcs[2].title, raceProcs[1].title)

\* C23: two setAnnotation calls by two processes can interleave so that an
\* update is lost.  Each write stores exactly what its process computed from the
\* file it read; so when both calls read the file before the other wrote it
\* and the titles are dissimilar, the final store never holds both annotations.
C23_LostUpdate ==
    /\ [][\A me \in RaceProcs :
             (raceProcs[me].pc = "loaded" /\ raceProcs'[me].pc = "done")
                 => annFile' = saveAnnotations(
                        upsertAnnotation(loadAnnotations(raceProcs[me].read),
                                         RaceMine(me)))]_vars
    /\ []((/\ RaceAllDone
           /\ RaceDissimilar
           /\ ~RaceHas(loadAnnotations(raceProcs[1].read), RaceMine(2))
           /\ ~RaceHas(loadAnnotations(raceProcs[2].read), RaceMine(1)))
             => ~(/\ RaceHas(loadAnnotations(annFile), RaceMine(1))
                  /\ RaceHas(loadAnnotations(annFile), RaceMine(2))))

\* C23's case: both calls have returned, the titles are dissimilar, and the
\* store has no annotation with the title the first process set.
C23_Witness ==
    /\ RaceAllDone
    /\ RaceDissimilar
    /\ raceProcs[1].title = "css"
    /\ raceProcs[2].title = "Sql!"
    /\ \A i \in 1..Len(loadAnnotations(annFile)) :
           loadAnnotations(annFile)[i].frictionTitle # "css"

-----------------------------------------------------------------------------
(* Claims about applyToProject (SpecApply).                                *)

ApplyCalled == applyLast.op = "applyToProject"

\* C28: applyToProject runs mergeClaudeMd, then mergeSettings, then
\* placeSkills.  When mergeClaudeMd raises, settings.json and the skills are
\* as before; when the settings write raises, the call raises, no skill file
\* is placed, and CLAUDE.md is as mergeClaudeMd wrote it; placeSkills runs
\* only after both returned.
C28_NotAtomic ==
    ApplyCalled =>
        /\ applyLast.raised = "mergeClaudeMd" =>
               /\ settingsFile = applyLast.settingsBefore
               /\ skillFiles = applyLast.skillsBefore
        /\ applyLast.settingsStatus = "threw" =>
               /\ applyLast.raised = "mergeSettings"
               /\ applyLast.skillsPlaced = -1
               /\ skillFiles = applyLast.skillsBefore
               /\ claudeMd = mergeClaudeMd(applyLast.mdBefore,
                                           applyLast.output.claudeMdAdditions,
                                           "written").file
               /\ applyLast.claudeMdStatus \in {"created", "updated"} =>
                      claudeMd # applyLast.mdBefore
        /\ skillFiles # applyLast.skillsBefore =>
               /\ applyLast.claudeMdStatus \in {"created", "updated", "unchanged"}
               /\ applyLast.settingsStatus \in {"created", "updated", "unchanged"}

\* C28's case: the call wrote a rule to CLAUDE.md, the settings write raised,
\* and neither of the two skills of the output was placed.
C28_Witness ==
    /\ ApplyCalled
    /\ applyLast.settingsStatus = "threw"
    /\ applyLast.claudeMdStatus = "updated"
    /\ claudeMd # applyLast.mdBefore
    /\ Len(applyLast.output.skills) = 2
    /\ skillFiles = NoFiles

=============================================================================
